---- MODULE Spec2Model ----
(***************************************************************************)
(* A model of the word-hunt board service (app/service/board_service.py):  *)
(* the shared dictionary index and its asynchronous load, the trie, the    *)
(* random board generator and the seed-keyed LRU result cache.             *)
(*                                                                         *)
(* Strings are sequences of one-character strings.  Class-level fields of  *)
(* BoardService are the shared variables; every coroutine that can be      *)
(* suspended has a program counter.                                        *)
(***************************************************************************)
EXTENDS Integers, Sequences, FiniteSets, TLC

VARIABLES
    files,               \* the file system: path -> content, or NoFile
    dictionary_version,  \* BoardService._dictionary_version (NoVersion or <<int>>)
    dictionary,          \* BoardService._dictionary (a set of words)
    trie_root,           \* BoardService._trie_root (NoTrie or a trie)
    is_loaded,           \* BoardService._is_loaded
    pc,                  \* per load coroutine: where it is suspended
    call,                \* per load coroutine: which entry point it was called through
    lpath,               \* per load coroutine: self.wordlist_path
    sawLoaded,           \* per load coroutine: the value of _is_loaded that ensure_loaded tested
    reads,               \* history: number of completed file reads
    cache,               \* BoardService._cache, oldest entry first
    result,              \* what the latest service call returned
    lastCall,            \* the latest service call and its arguments
    steps,               \* number of service steps taken
    hist                 \* history of the cache: see NoHistory

dictVars == <<dictionary_version, dictionary, trie_root, is_loaded>>
loadVars == <<pc, call, lpath, sawLoaded, reads>>
cacheVars == <<cache, result, lastCall, steps, hist>>
vars == <<files, dictionary_version, dictionary, trie_root, is_loaded,
          pc, call, lpath, sawLoaded, reads, cache, result, lastCall, steps, hist>>

\* Python's None, for the optional fields: a trie without a root node, an unset
\* version (the version, when set, is the one element of the sequence)
NoTrie == [nodes |-> {}, is_word |-> {}]
NoVersion == <<>>
\* a path at which no file exists
NoFile == [exists |-> FALSE, header |-> <<>>, body |-> <<>>]

(***************************************************************************)
(* Bounds of the model.                                                    *)
(***************************************************************************)
NumLoaders == 3      \* concurrent load / ensure_loaded coroutines
MaxBody == 7         \* characters of a word list after its version line
MaxQuery == 3        \* length of the strings asked of _is_word / _is_prefix

Loaders == 1..NumLoaders

(***************************************************************************)
(* Characters and the str methods the loader uses.                         *)
(***************************************************************************)
WhiteSpace == {" ", "\n", "\t"}

\* str.upper(), one character
UpperChar(c) ==
    CASE c = "a" -> "A" [] c = "b" -> "B" [] c = "c" -> "C" [] c = "d" -> "D"
      [] c = "g" -> "G" [] c = "o" -> "O" [] c = "r" -> "R" [] c = "t" -> "T"
      [] OTHER -> c

\* str.upper()
Upper(s) == [i \in 1..Len(s) |-> UpperChar(s[i])]

RECURSIVE LStrip(_)
LStrip(s) == IF s # <<>> /\ Head(s) \in WhiteSpace THEN LStrip(Tail(s)) ELSE s

RECURSIVE RStrip(_)
RStrip(s) ==
    IF s # <<>> /\ s[Len(s)] \in WhiteSpace THEN RStrip(SubSeq(s, 1, Len(s) - 1)) ELSE s

\* str.strip()
Strip(s) == RStrip(LStrip(s))

\* str.splitlines(): break at every newline; a trailing newline opens no last line
RECURSIVE SplitLinesFrom(_, _)
SplitLinesFrom(s, line) ==
    IF s = <<>> THEN (IF line = <<>> THEN <<>> ELSE <<line>>)
    ELSE IF Head(s) = "\n" THEN <<line>> \o SplitLinesFrom(Tail(s), <<>>)
    ELSE SplitLinesFrom(Tail(s), Append(line, Head(s)))

SplitLines(s) == SplitLinesFrom(s, <<>>)

DigitValue(c) ==
    CASE c = "0" -> 0 [] c = "1" -> 1 [] c = "2" -> 2 [] c = "3" -> 3 [] c = "4" -> 4
      [] c = "5" -> 5 [] c = "6" -> 6 [] c = "7" -> 7 [] c = "8" -> 8 [] c = "9" -> 9

RECURSIVE IntOfDigits(_, _)
IntOfDigits(s, acc) ==
    IF s = <<>> THEN acc ELSE IntOfDigits(Tail(s), 10 * acc + DigitValue(Head(s)))

\* int(content.splitlines()[0].split(":")[1].strip()); a content keeps the first
\* line already split at its colon: header[1] is the key, header[2] the value
ParseVersion(content) == IntOfDigits(Strip(content.header[2]), 0)

MinDictWordLen == 3

SeqRange(s) == {s[i] : i \in 1..Len(s)}

\* the set comprehension that fills BoardService._dictionary from the lines after
\* the first
ParseWords(content) ==
    {Upper(Strip(line)) : line \in {l \in SeqRange(SplitLines(content.body)) :
                                       Strip(l) # <<>> /\ Len(Strip(l)) >= MinDictWordLen}}

(***************************************************************************)
(* The trie.  A TrieNode is identified by the path that leads to it from   *)
(* the root (<<>> is the root): nodes holds the nodes that exist, so       *)
(* "ch in node.children" is Append(node, ch) \in nodes, and is_word holds  *)
(* the nodes whose is_word flag is set.                                    *)
(***************************************************************************)
EmptyTrie == [nodes |-> {<<>>}, is_word |-> {}]

\* the inner loop of _build_trie: walk word from its i-th character, creating the
\* missing children, and flag the last node
RECURSIVE InsertWord(_, _, _)
InsertWord(trie, word, i) ==
    IF i > Len(word)
    THEN [trie EXCEPT !.is_word = @ \cup {word}]
    ELSE InsertWord([trie EXCEPT !.nodes = @ \cup {SubSeq(word, 1, i)}], word, i + 1)

RECURSIVE BuildTrieFrom(_, _)
BuildTrieFrom(trie, words) ==
    IF words = {} THEN trie
    ELSE LET word == CHOOSE w \in words : TRUE
         IN BuildTrieFrom(InsertWord(trie, word, 1), words \ {word})

\* a plausible slip: only the nodes of complete words are kept
BuildTrie_LeavesOnly(words) == [nodes |-> {<<>>} \cup words, is_word |-> words]

\* _build_trie
BuildTrie(words) == BuildTrieFrom(EmptyTrie, words)

\* the descent shared by _is_prefix and _is_word: it steps from the root to the
\* child of each character in turn and fails at the first character without a
\* child, so it succeeds when every prefix of s is a node
Descend(trie, s) == \A i \in 1..Len(s) : SubSeq(s, 1, i) \in trie.nodes

\* a plausible slip: _is_prefix asks for the word flag, as _is_word does
IsPrefixIn_NeedsFlag(root, prefix) ==
    IF root = NoTrie THEN FALSE
    ELSE Descend(root, prefix) /\ prefix \in root.is_word

\* _is_prefix on a given root
IsPrefixIn(root, prefix) ==
    IF root = NoTrie THEN FALSE ELSE Descend(root, prefix)

\* _is_word on a given root
IsWordIn(root, word) ==
    IF root = NoTrie THEN FALSE
    ELSE Descend(root, word) /\ word \in root.is_word

_is_prefix(prefix) == IsPrefixIn(trie_root, prefix)
_is_word(word) == IsWordIn(trie_root, word)
(***************************************************************************)
(* The random source.  random.Random(seed) is a deterministic stream fixed *)
(* by its seed.  It is modelled by a counter-based generator: the state is *)
(* the position in the stream, a draw mixes the position into a number and *)
(* moves one position on.  random.Random() without a seed starts from      *)
(* operating-system entropy: any state.                                    *)
(***************************************************************************)
\* random.Random(seed)
RandomOf(seed) == (seed * 1009) % 32749

\* the stream k draws later
RngAfter(rng, k) == (rng + k) % 32749

\* the number drawn at a position
RngBits(rng) ==
    LET cube == (((rng * rng) % 32749) * rng) % 32749
    IN ((cube * 7) + (rng * 31) + 11) % 32749

\* rng.randrange(n): the value drawn and the stream after it
RandRange(rng, n) == [rng |-> RngAfter(rng, 1), value |-> RngBits(rng) % n]

\* rng.choice(seq)
RandChoice(rng, seq) ==
    LET d == RandRange(rng, Len(seq)) IN [rng |-> d.rng, value |-> seq[d.value + 1]]

(***************************************************************************)
(* Letters: the frequency table of BoardService.__init__, weights in       *)
(* tenths of a percent, in the table's order.                              *)
(***************************************************************************)
letters == <<"E","A","R","I","O","T","N","S","L","C","U","D","P",
             "M","H","G","B","F","Y","W","K","V","X","Z","J","Q">>
weights == <<120, 82, 60, 70, 75, 91, 67, 63, 40, 28, 28, 43, 20,
             24, 61, 20, 15, 22, 20, 20, 8, 10, 2, 1, 2, 1>>

RECURSIVE SumTo(_, _)
SumTo(seq, i) == IF i = 0 THEN 0 ELSE seq[i] + SumTo(seq, i - 1)

\* the cumulative weights rng.choices works with
cum_weights == [i \in 1..Len(weights) |-> SumTo(weights, i)]

\* _generate_random_letter: rng.choices(letters, weights, k=1)[0], the first
\* letter whose cumulative weight exceeds the point drawn
GenerateRandomLetter(rng) ==
    LET d == RandRange(rng, cum_weights[Len(weights)])
        i == CHOOSE k \in 1..Len(letters) :
                 /\ cum_weights[k] > d.value
                 /\ \A j \in 1..(k - 1) : cum_weights[j] <= d.value
    IN [rng |-> d.rng, value |-> letters[i]]

\* k letters drawn one after the other
GenerateLetters(rng, k) ==
    [rng |-> RngAfter(rng, k),
     value |-> [i \in 1..k |-> GenerateRandomLetter(RngAfter(rng, i - 1)).value]]

\* _generate_board: n rows of n letters, drawn row by row.  grid[x + 1][y + 1]
\* is the code's grid[x][y]
GridOf(n, drawn) ==
    [rng |-> drawn.rng,
     value |-> [x \in 1..n |-> [y \in 1..n |-> drawn.value[(x - 1) * n + y]]]]

GenerateGrid(n, rng) == GridOf(n, GenerateLetters(rng, n * n))

(***************************************************************************)
(* Grid search.                                                            *)
(***************************************************************************)
dirs == << <<-1, -1>>, <<-1, 0>>, <<-1, 1>>, <<0, -1>>, <<0, 1>>, <<1, -1>>, <<1, 0>>, <<1, 1>> >>

\* the cells of seq that lie on the n x n board and are not in used, in order
FilterCells(seq, n, used) ==
    LET Free(c) == c[1] >= 0 /\ c[1] < n /\ c[2] >= 0 /\ c[2] < n /\ c \notin used
    IN SelectSeq(seq, Free)

\* a plausible slip: the four neighbours at the sides only
GetNeighbors_SidesOnly(n, x, y) ==
    FilterCells(<< <<x - 1, y>>, <<x, y - 1>>, <<x, y + 1>>, <<x + 1, y>> >>, n, {})

\* _get_neighbors(n, x, y), in the order of dirs
GetNeighbors(n, x, y) ==
    FilterCells([i \in 1..Len(dirs) |-> <<x + dirs[i][1], y + dirs[i][2]>>], n, {})

CellAt(grid, x, y) == grid[x + 1][y + 1]

\* _dfs_find_words, returning the words it adds to results
RECURSIVE DfsFindWords(_, _, _, _, _, _, _)
DfsFindWords(root, grid, x, y, visited, prefix, min_length) ==
    LET n == Len(grid)
        word == Append(prefix, CellAt(grid, x, y))
    IN IF ~IsPrefixIn(root, word) THEN {}
       ELSE (IF Len(word) >= min_length /\ IsWordIn(root, word) THEN {word} ELSE {})
            \cup UNION {DfsFindWords(root, grid, c[1], c[2], visited \cup {c}, word, min_length) :
                           c \in SeqRange(GetNeighbors(n, x, y)) \ visited}

\* find_words(grid, min_length) against the trie root
FindWords(root, grid, min_length) ==
    UNION {DfsFindWords(root, grid, x, y, {<<x, y>>}, <<>>, min_length) :
              x \in 0..(Len(grid) - 1), y \in 0..(Len(grid) - 1)}

\* the order of Python's str comparison on the characters of the model
CharOrder == <<" ", "A","B","C","D","E","F","G","H","I","J","K","L","M",
               "N","O","P","Q","R","S","T","U","V","W","X","Y","Z", "a", "b", "c">>
CharCode(c) == CHOOSE i \in 1..Len(CharOrder) : CharOrder[i] = c

RECURSIVE StrLess(_, _)
StrLess(a, b) ==
    IF b = <<>> THEN FALSE
    ELSE IF a = <<>> THEN TRUE
    ELSE IF Head(a) # Head(b) THEN CharCode(Head(a)) < CharCode(Head(b))
    ELSE StrLess(Tail(a), Tail(b))

\* sorted(words): the i-th string is the one with i - 1 strings below it
Sorted(words) ==
    [i \in 1..Cardinality(words) |->
        CHOOSE w \in words : Cardinality({v \in words : StrLess(v, w)}) = i - 1]

(***************************************************************************)
(* Richness.  The code computes in floating point; the model keeps the     *)
(* exact fraction num / den in lowest terms.                               *)
(***************************************************************************)
RECURSIVE Gcd(_, _)
Gcd(a, b) == IF b = 0 THEN a ELSE Gcd(b, a % b)

Fraction(num, den) == LET g == Gcd(num, den) IN [num |-> num \div g, den |-> den \div g]

Min(a, b) == IF a <= b THEN a ELSE b

\* sum(len(w) for w in words[lo..hi])
RECURSIVE SumLen(_, _, _)
SumLen(words, lo, hi) ==
    IF lo > hi THEN 0
    ELSE IF lo = hi THEN Len(words[lo])
    ELSE LET mid == (lo + hi) \div 2
         IN SumLen(words, lo, mid) + SumLen(words, mid + 1, hi)

\* a plausible slip: the expected number of words is not cut to an integer
ComputeRichness_HalfNotCut(words, board_size) ==
    IF words = <<>> THEN Fraction(0, 1)
    ELSE LET count == Len(words)
             max_expected_length == Min(board_size * 2, 15)
             total_length == SumLen(words, 1, count)
         IN Fraction(4 * Min(2 * count, board_size * board_size) * count * max_expected_length
                       + Min(total_length, count * max_expected_length)
                           * board_size * board_size,
                     5 * board_size * board_size * count * max_expected_length)

\* a plausible slip: the count score is not capped at 1
ComputeRichness_CountUncapped(words, board_size) ==
    IF words = <<>> THEN Fraction(0, 1)
    ELSE LET max_expected_words == (board_size * board_size) \div 2
             count == Len(words)
             max_expected_length == Min(board_size * 2, 15)
             total_length == SumLen(words, 1, count)
         IN Fraction(4 * count * count * max_expected_length
                       + Min(total_length, count * max_expected_length) * max_expected_words,
                     5 * max_expected_words * count * max_expected_length)

\* _compute_richness(words, board_size)
ComputeRichness(words, board_size) ==
    IF words = <<>> THEN Fraction(0, 1)
    ELSE LET max_expected_words == (board_size * board_size) \div 2
             count == Len(words)
             max_expected_length == Min(board_size * 2, 15)
             total_length == SumLen(words, 1, count)
             \* count_score = min(count / max_expected_words, 1)
             \* length_score = min(total_length / count / max_expected_length, 1)
             \* count_score * 0.8 + length_score * 0.2, over one denominator
         IN Fraction(4 * Min(count, max_expected_words) * count * max_expected_length
                       + Min(total_length, count * max_expected_length) * max_expected_words,
                     5 * max_expected_words * count * max_expected_length)

(***************************************************************************)
(* The random board generator.                                             *)
(***************************************************************************)
SeedMaxRetries == 50
MaxAttempts == 200
TolerancePercent == 5

\* the inner loop of _seed_word_path: k more steps from the end of path, each to a
\* neighbour drawn among those not yet used
RECURSIVE GrowPath(_, _, _, _)
GrowPath(n, rng, path, k) ==
    IF k = 0 THEN [rng |-> rng, path |-> path, success |-> TRUE]
    ELSE LET last == path[Len(path)]
             options == FilterCells(GetNeighbors(n, last[1], last[2]), n, SeqRange(path))
         IN IF options = <<>>
            THEN [rng |-> rng, path |-> path, success |-> FALSE]
            ELSE LET d == RandChoice(rng, options)
                 IN GrowPath(n, d.rng, Append(path, d.value), k - 1)

\* for (rr, cc), ch in zip(path, w): grid[rr][cc] = ch
WriteAlongPath(grid, path, w) ==
    [x \in 1..Len(grid) |-> [y \in 1..Len(grid) |->
        IF \E i \in 1..Len(path) : path[i] = <<x - 1, y - 1>>
        THEN w[CHOOSE i \in 1..Len(path) :
                 /\ path[i] = <<x - 1, y - 1>>
                 /\ \A j \in (i + 1)..Len(path) : path[j] # <<x - 1, y - 1>>]
        ELSE grid[x][y]]]

\* one more path was begun than seeded counts
OneMorePath(seeded) == [seeded EXCEPT !.paths = @ + 1]

\* _seed_word_path(grid, word, rng) with retries tries left: the stream and the
\* grid after it, and the number of paths begun.  SeedAlong is the end of one
\* try, given the path it grew.
RECURSIVE SeedWordPath(_, _, _, _)
RECURSIVE SeedAlong(_, _, _, _)
SeedAlong(grid, word, retries, grown) ==
    IF grown.success /\ Len(grown.path) = Len(Upper(word))
    THEN [rng |-> grown.rng, grid |-> WriteAlongPath(grid, grown.path, Upper(word)),
          placed |-> TRUE, paths |-> 1]
    ELSE OneMorePath(SeedWordPath(grid, word, grown.rng, retries - 1))

SeedWordPath(grid, word, rng, retries) ==
    IF retries = 0 THEN [rng |-> rng, grid |-> grid, placed |-> FALSE, paths |-> 0]
    ELSE LET n == Len(grid)
             r == RandRange(rng, n)
             c == RandRange(r.rng, n)
         IN SeedAlong(grid, word, retries,
                      GrowPath(n, c.rng, << <<r.value, c.value>> >>, Len(Upper(word)) - 1))

\* BoardGenerationResponse(grid=..., richness=..., words=...)
BoardGenerationResponse(grid, richness, words) ==
    [grid |-> grid, richness |-> richness, words |-> words]

\* richness_score = self._compute_richness(words, board_size), and the board of
\* grid, richness_score and words
BoardOfWords(grid, words, board_size) ==
    BoardGenerationResponse(grid, ComputeRichness(words, board_size), words)

\* words = sorted(self.find_words(grid, min_word_length)), and the board of them
BoardOfGrid(root, grid, request) ==
    BoardOfWords(grid, Sorted(FindWords(root, grid, request.min_word_length)),
                 request.board_size)

\* |richness - target_richness| as a fraction; the target is in percent
ScoreDiff(richness, target) ==
    LET d == 100 * richness.num - target * richness.den
    IN Fraction(IF d < 0 THEN -d ELSE d, 100 * richness.den)

FracLess(a, b) == a.num * b.den < b.num * a.den
FracLeq(a, b) == a.num * b.den <= b.num * a.den

\* A loop state of _do_generate_board holds the stream, best (<<>> or
\* <<best_board>>) with its distance best_diff, the board of the latest round,
\* and returned: <<>> or <<the board the loop returned early>>.  It also keeps
\* a record of the call: the number of rounds begun, the number of grids
\* _generate_board has made, and the boards of the rounds in their order.

\* a plausible slip: a board as near to the target as the best one replaces it
JudgeRound_LatestOnTies(st, request, rng, board, score_diff) ==
    LET next == [st EXCEPT !.rng = rng, !.last = board, !.attempts = Append(@, board)]
    IN IF Len(board.words) < request.min_word_count
       THEN next
       ELSE IF FracLeq(score_diff, [num |-> TolerancePercent, den |-> 100])
       THEN [next EXCEPT !.returned = <<board>>]
       ELSE IF st.best = <<>> \/ FracLeq(score_diff, st.best_diff)
       THEN [next EXCEPT !.best = <<board>>, !.best_diff = score_diff]
       ELSE next

\* the tests at the end of a round, on its board
JudgeRound(st, request, rng, board, score_diff) ==
    LET next == [st EXCEPT !.rng = rng, !.last = board, !.attempts = Append(@, board)]
    IN IF Len(board.words) < request.min_word_count
       THEN next
       ELSE IF FracLeq(score_diff, [num |-> TolerancePercent, den |-> 100])
       THEN [next EXCEPT !.returned = <<board>>]
       ELSE IF st.best = <<>> \/ FracLess(score_diff, st.best_diff)
       THEN [next EXCEPT !.best = <<board>>, !.best_diff = score_diff]
       ELSE next

RoundBoard(st, request, rng, board) ==
    JudgeRound(st, request, rng, board, ScoreDiff(board.richness, request.target_richness))

\* the round from the grid on, seeded being [rng, grid] after the seeding
RoundOn(root, request, st, seeded) ==
    RoundBoard(st, request, seeded.rng, BoardOfGrid(root, seeded.grid, request))

\* self._seed_word_path(grid, rng.choice(candidate_long_words), rng)
SeedPick(grid, pick) == SeedWordPath(grid, pick.value, pick.rng, SeedMaxRetries)

\* only seed words for higher target richness; fresh is the grid just generated
SeedRound(candidates, request, fresh) ==
    IF request.target_richness > 50 /\ candidates # <<>>
    THEN SeedPick(fresh.value, RandChoice(fresh.rng, candidates))
    ELSE [rng |-> fresh.rng, grid |-> fresh.value, placed |-> FALSE]

\* one round of the attempt loop
AttemptRound(root, candidates, request, st) ==
    IF st.returned # <<>> THEN st
    ELSE RoundOn(root, request, [st EXCEPT !.rounds = @ + 1, !.grids = @ + 1],
                 SeedRound(candidates, request, GenerateGrid(request.board_size, st.rng)))

\* rounds rounds of the loop, one after the other (split in halves, which keeps
\* the nesting of the evaluation shallow)
RECURSIVE AttemptLoop(_, _, _, _, _)
AttemptLoop(root, candidates, request, st, rounds) ==
    IF rounds = 0 \/ st.returned # <<>> THEN st
    ELSE IF rounds = 1 THEN AttemptRound(root, candidates, request, st)
    ELSE AttemptLoop(root, candidates, request,
                     AttemptLoop(root, candidates, request, st, rounds \div 2),
                     rounds - (rounds \div 2))

\* what _do_generate_board returns when the loop is over
LoopResult(end) ==
    IF end.returned # <<>> THEN end.returned[1]
    ELSE IF end.best # <<>> THEN end.best[1]
    ELSE end.last

\* the loop state _do_generate_board ends with; first is the fallback grid,
\* made before the loop
GenerateEnd(root, candidates, request, first) ==
    AttemptLoop(root, candidates, request,
                [rng |-> first.rng, best |-> <<>>,
                 best_diff |-> [num |-> 0, den |-> 1],
                 last |-> BoardOfGrid(root, first.value, request),
                 returned |-> <<>>,
                 rounds |-> 0, grids |-> 1, attempts |-> <<>>],
                MaxAttempts)

\* the loop of _do_generate_board after the fallback grid first
GenerateFrom(root, candidates, request, first) ==
    LoopResult(GenerateEnd(root, candidates, request, first))

\* the loop state of _do_generate_board(request, rng) when the loop is over
DoGenerateEnd(root, words, request, rng) ==
    GenerateEnd(root, Sorted({w \in words : Len(w) >= request.min_word_length}),
                request, GenerateGrid(request.board_size, rng))

\* _do_generate_board(request, rng) once the dictionary is loaded
DoGenerateBoard(root, words, request, rng) ==
    GenerateFrom(root, Sorted({w \in words : Len(w) >= request.min_word_length}),
                 request, GenerateGrid(request.board_size, rng))

(***************************************************************************)
(* The word lists.  A content is the text of a file: its first line, split *)
(* at the colon, and the characters that follow the first line break.      *)
(***************************************************************************)
WordlistPath == "WORDLIST.txt"
OtherPath == "other.txt"
MissingPath == "nonexistent.txt"
Paths == {WordlistPath, OtherPath, MissingPath}

\* the word list of the test suite: version 1 and twelve words
StaticContent ==
    [exists |-> TRUE,
     header |-> <<"version", <<" ", "1">>>>,
     body |-> <<"C","A","T","\n", "D","O","G","\n", "B","A","T","\n", "R","A","T","\n",
                "C","A","R","\n", "B","A","R","\n", "T","A","R","\n", "A","R","T","\n",
                "A","C","T","\n", "C","O","A","T","\n", "B","O","A","T","\n",
                "G","O","A","T","\n">>]

\* another word list: version 2, lower case, padding, a blank line, a short word
OtherContent ==
    [exists |-> TRUE,
     header |-> <<"version", <<" ", "2", " ">>>>,
     body |-> <<"c","a","t","\n", " ","D","O","\n", "\n", " ","d","o","t"," ","\n",
                "C","A","T","\n", "a","t">>]

StaticFiles ==
    [p \in Paths |-> CASE p = WordlistPath -> StaticContent
                       [] p = OtherPath -> OtherContent
                       [] OTHER -> NoFile]

(***************************************************************************)
(* The requests and seeds of the model.                                    *)
(***************************************************************************)
MaxSteps == 4        \* service calls in one behaviour, the warm-up not counted
WarmCount == 28      \* seeds the warm-up asks for, one board each
MaxBoards == 3       \* the largest num_boards of a batch

\* BoardGenerationRequest(board_size, target_richness (in percent), min_word_length,
\* min_word_count)
Request30 == [board_size |-> 3, target_richness |-> 30, min_word_length |-> 3,
              min_word_count |-> 0]
Request70 == [board_size |-> 3, target_richness |-> 70, min_word_length |-> 3,
              min_word_count |-> 0]
Requests == {Request30, Request70}

\* an optional seed: <<>> is None, <<s>> the seed s
NoSeed == <<>>
WarmSeeds == {100 + i : i \in 0..(WarmCount - 1)}
SingleSeeds == {0, 1, 100}
BaseSeeds == {0}
Counts == {2, MaxBoards}
AllSeeds == (0..MaxBoards) \cup SingleSeeds \cup WarmSeeds

\* the states random.Random() may start from when no seed is given, and the
\* states it may start from for the two boards of an unseeded batch
Entropy == {RandomOf(0), 4242}
EntropyPairs == {<<RandomOf(0), 4242>>, <<4242, 4242>>}

StaticWords == ParseWords(StaticContent)
StaticTrie == BuildTrie(StaticWords)

\* the boards _do_generate_board computes under the static word list, each
\* computed once
BoardTable ==
    {[request |-> r, rng |-> g, board |-> DoGenerateBoard(StaticTrie, StaticWords, r, g)] :
        r \in Requests, g \in {RandomOf(s) : s \in AllSeeds} \cup Entropy}

\* the table's board when the table holds one for the request and the stream,
\* else the board computed
TableOr(table, request, rng, computed) ==
    IF \E t \in table : t.request = request /\ t.rng = rng
    THEN (CHOOSE t \in table : t.request = request /\ t.rng = rng).board
    ELSE computed

\* await self._do_generate_board(request, rng), the dictionary being loaded
\* (ensure_loaded returns at once)
_do_generate_board(request, rng) ==
    TableOr(IF dictionary = StaticWords /\ trie_root = StaticTrie THEN BoardTable ELSE {},
            request, rng,
            DoGenerateBoard(trie_root, dictionary, request, rng))

(***************************************************************************)
(* The result cache: an OrderedDict from seed to a board or a list of      *)
(* boards, modelled as the sequence of its entries, oldest first.  An item *)
(* is [is_list, boards]: a single BoardGenerationResponse is the one       *)
(* element of boards.                                                      *)
(*                                                                         *)
(* The operations work on a pair [cache, hist]; hist is history, not       *)
(* program state:                                                          *)
(*   clock      number of insertions of a new key and of get hits          *)
(*   last_use   per seed, the clock of its latest insertion as a new key   *)
(*              or get hit since the cache was last empty (0: none)        *)
(*   computed   per seed, the runs of _do_generate_board on                *)
(*              random.Random(seed) since the cache was last cleared       *)
(*   dropped    per seed, how often its single-board entry left the cache  *)
(*              (evicted, or overwritten by a list) since the last clear   *)
(*   evictions  for every put that evicted: the keys evicted and the key   *)
(*              whose last_use was then the least                          *)
(*   runs       the runs of _do_generate_board in the latest call          *)
(*   returned   <<request, seed, board>> for every seeded generate_board   *)
(***************************************************************************)
_max_cache_size == 30

NoItem == [is_list |-> FALSE, boards |-> <<>>]
SingleItem(board) == [is_list |-> FALSE, boards |-> <<board>>]
ListItem(boards) == [is_list |-> TRUE, boards |-> boards]

NoHistory ==
    [clock |-> 0,
     last_use |-> [s \in AllSeeds |-> 0],
     computed |-> [s \in AllSeeds |-> 0],
     dropped |-> [s \in AllSeeds |-> 0],
     evictions |-> {},
     runs |-> 0,
     returned |-> {}]

CacheKeys(c) == [i \in 1..Len(c) |-> c[i].seed]
HasKey(c, seed) == \E i \in 1..Len(c) : c[i].seed = seed
ItemAt(c, seed) == c[CHOOSE i \in 1..Len(c) : c[i].seed = seed].item
SingleAt(c, seed) == HasKey(c, seed) /\ ~ItemAt(c, seed).is_list
Without(c, seed) == LET Other(e) == e.seed # seed IN SelectSeq(c, Other)

\* a plausible slip: a hit returns the item and leaves the entry where it is
_get_from_cache_NoPromote(st, seed) ==
    IF HasKey(st.cache, seed)
    THEN [found |-> TRUE, item |-> ItemAt(st.cache, seed),
          st |-> [st EXCEPT !.hist.clock = @ + 1,
                            !.hist.last_use[seed] = st.hist.clock + 1]]
    ELSE [found |-> FALSE, item |-> NoItem, st |-> st]

\* _get_from_cache(seed): on a hit the entry is popped and stored again, which
\* puts it last
_get_from_cache(st, seed) ==
    IF HasKey(st.cache, seed)
    THEN LET item == ItemAt(st.cache, seed)
         IN [found |-> TRUE, item |-> item,
             st |-> [st EXCEPT !.cache = Append(Without(st.cache, seed),
                                                [seed |-> seed, item |-> item]),
                               !.hist.clock = @ + 1,
                               !.hist.last_use[seed] = st.hist.clock + 1]]
    ELSE [found |-> FALSE, item |-> NoItem, st |-> st]

\* a plausible slip: the bound tested one too high
RECURSIVE _manage_cache_size_OffByOne(_)
_manage_cache_size_OffByOne(c) ==
    IF Len(c) > _max_cache_size + 1 THEN _manage_cache_size_OffByOne(Tail(c)) ELSE c

\* _manage_cache_size: while the cache is over its bound, popitem(last=False)
RECURSIVE _manage_cache_size(_)
_manage_cache_size(c) ==
    IF Len(c) > _max_cache_size THEN _manage_cache_size(Tail(c)) ELSE c

\* a plausible slip: a put adds an entry even when the key is present
_put_in_cache_AlwaysAppends(st, seed, item) ==
    [cache |-> _manage_cache_size(Append(st.cache, [seed |-> seed, item |-> item])),
     hist |-> [st.hist EXCEPT !.clock = @ + 1]]

\* _put_in_cache(seed, item): cls._cache[seed] = item keeps the place of a key that
\* is present and puts a new key last; then the size is managed
_put_in_cache(st, seed, item) ==
    LET c == st.cache
        present == HasKey(c, seed)
        stored == IF present
                  THEN [i \in 1..Len(c) |->
                           IF c[i].seed = seed THEN [seed |-> seed, item |-> item] ELSE c[i]]
                  ELSE Append(c, [seed |-> seed, item |-> item])
        trimmed == _manage_cache_size(stored)
        \* history
        h == st.hist
        use == IF present THEN h.last_use ELSE [h.last_use EXCEPT ![seed] = h.clock + 1]
        Gone(k) == ~HasKey(trimmed, k)
        evicted == SelectSeq(CacheKeys(stored), Gone)
        keys == SeqRange(CacheKeys(stored))
        oldest == CHOOSE k \in keys : \A j \in keys : use[k] <= use[j]
        lost == {k \in SeqRange(CacheKeys(c)) : SingleAt(c, k) /\ ~SingleAt(trimmed, k)}
    IN [cache |-> trimmed,
        hist |-> [h EXCEPT !.clock = IF present THEN @ ELSE @ + 1,
                           !.last_use = use,
                           !.evictions = IF evicted = <<>> THEN @
                                         ELSE @ \cup {[evicted |-> evicted, oldest |-> oldest]},
                           !.dropped = [k \in AllSeeds |->
                                           IF k \in lost THEN h.dropped[k] + 1
                                           ELSE h.dropped[k]]]]

\* a plausible slip: the cached board is never used
IsCachedBoard_Never(got) == FALSE

\* cached_item is not None and isinstance(cached_item, BoardGenerationResponse)
IsCachedBoard(got) == got.found /\ ~got.item.is_list

\* cached_item is not None and isinstance(cached_item, list)
IsCachedList(got) == got.found /\ got.item.is_list

\* self._put_in_cache(seed, board); return board
StoreBoard(st, request, seed, board) ==
    [board |-> board,
     st |-> _put_in_cache([st EXCEPT !.hist.runs = @ + 1,
                                     !.hist.computed[seed] = @ + 1,
                                     !.hist.returned = @ \cup {<<request, seed, board>>}],
                          seed, SingleItem(board))]

\* generate_board with a seed, after cached_item = self._get_from_cache(seed)
SeededBoard(got, request, seed) ==
    IF IsCachedBoard(got)
    THEN [board |-> got.item.boards[1],
          st |-> [got.st EXCEPT !.hist.returned =
                                   @ \cup {<<request, seed, got.item.boards[1]>>}]]
    ELSE StoreBoard(got.st, request, seed, _do_generate_board(request, RandomOf(seed)))

\* generate_board(request, seed=seed); entropy is the state random.Random()
\* starts from when there is no seed
generate_board(st, request, seed, entropy) ==
    IF seed = NoSeed
    THEN [board |-> _do_generate_board(request, entropy),
          st |-> [st EXCEPT !.hist.runs = @ + 1]]
    ELSE SeededBoard(_get_from_cache(st, seed[1]), request, seed[1])

\* a plausible slip: every board of a batch generated from the base seed itself
BoardSeed_NoIndex(base_seed, i) ==
    IF base_seed = NoSeed THEN NoSeed ELSE <<base_seed[1]>>

\* a plausible slip: without a base seed the index is passed as the seed
BoardSeed_IndexWhenNone(base_seed, i) ==
    IF base_seed = NoSeed THEN <<i>> ELSE <<base_seed[1] + i>>

\* the seed of the i-th board of a batch: None without a base seed, else
\* board_seed = base_seed + i
BoardSeed(base_seed, i) ==
    IF base_seed = NoSeed THEN NoSeed ELSE <<base_seed[1] + i>>

\* the for loops of generate_multiple_boards from index i on; entropy[i + 1] is
\* the state an unseeded random.Random() starts from for the i-th board.
\* BoardsNext is boards.append(board) and the rest of the loop.
RECURSIVE BoardsLoop(_, _, _, _, _, _, _)
RECURSIVE BoardsNext(_, _, _, _, _, _, _)
BoardsNext(one, request, base_seed, num_boards, entropy, i, boards) ==
    BoardsLoop(one.st, request, base_seed, num_boards, entropy, i + 1,
               Append(boards, one.board))

BoardsLoop(st, request, base_seed, num_boards, entropy, i, boards) ==
    IF i >= num_boards THEN [boards |-> boards, st |-> st]
    ELSE BoardsNext(generate_board(st, request, BoardSeed(base_seed, i), entropy[i + 1]),
                    request, base_seed, num_boards, entropy, i, boards)

\* self._put_in_cache(base_seed, boards); return boards
StoreBoards(loop, base_seed) ==
    [boards |-> loop.boards,
     st |-> _put_in_cache(loop.st, base_seed, ListItem(loop.boards))]

\* generate_multiple_boards with a base seed, after
\* cached_item = self._get_from_cache(base_seed)
SeededBoards(got, request, base_seed, num_boards, entropy) ==
    IF IsCachedList(got)
    THEN [boards |-> got.item.boards, st |-> got.st]
    ELSE StoreBoards(BoardsLoop(got.st, request, <<base_seed>>, num_boards, entropy,
                                0, <<>>),
                     base_seed)

\* generate_multiple_boards(request, base_seed=base_seed, num_boards=num_boards)
generate_multiple_boards(st, request, base_seed, num_boards, entropy) ==
    IF base_seed = NoSeed
    THEN BoardsLoop(st, request, base_seed, num_boards, entropy, 0, <<>>)
    ELSE SeededBoards(_get_from_cache(st, base_seed[1]), request, base_seed[1],
                      num_boards, entropy)

\* clear_cache()
clear_cache(st) ==
    [cache |-> <<>>,
     hist |-> [NoHistory EXCEPT !.evictions = st.hist.evictions,
                                !.returned = st.hist.returned]]

(***************************************************************************)
(* The service calls.  The dictionary is loaded, so no call is suspended:  *)
(* a call is one step.                                                     *)
(***************************************************************************)
\* the service as a call finds it
Now == [cache |-> cache, hist |-> [hist EXCEPT !.runs = 0]]

\* the warm-up has begun and is not over
Warming == steps = 0 /\ Len(cache) \in 1..(WarmCount - 1)

NoCall == [op |-> "none", request |-> Request30, seed |-> NoSeed, num_boards |-> 0]

\* a call returns: the cache and the history after it, and what it returned
Return(st, item) ==
    /\ cache' = st.cache
    /\ hist' = st.hist
    /\ result' = item

ReturnBoard(r) == Return(r.st, SingleItem(r.board))
ReturnBoards(r) == Return(r.st, ListItem(r.boards))

CallGenerateBoard(request, seed, entropy) ==
    /\ is_loaded
    /\ steps < MaxSteps
    /\ ~Warming
    /\ ReturnBoard(generate_board(Now, request, seed, entropy))
    /\ lastCall' = [op |-> "generate_board", request |-> request, seed |-> seed,
                    num_boards |-> 1]
    /\ steps' = steps + 1
    /\ UNCHANGED <<files, dictVars, loadVars>>

CallGenerateBoards(request, base_seed, num_boards, entropy) ==
    /\ is_loaded
    /\ steps < MaxSteps
    /\ ~Warming
    /\ ReturnBoards(generate_multiple_boards(Now, request, base_seed, num_boards, entropy))
    /\ lastCall' = [op |-> "generate_multiple_boards", request |-> request,
                    seed |-> base_seed, num_boards |-> num_boards]
    /\ steps' = steps + 1
    /\ UNCHANGED <<files, dictVars, loadVars>>

CallClearCache ==
    /\ steps < MaxSteps
    /\ ~Warming
    /\ Return(clear_cache(Now), NoItem)
    /\ lastCall' = [NoCall EXCEPT !.op = "clear_cache"]
    /\ steps' = steps + 1
    /\ UNCHANGED <<files, dictVars, loadVars>>

\* a behaviour may begin with a warm-up: generate_board(Request30, seed) for the
\* WarmCount seeds from 100 on, one call a step, which fills the cache with
\* single boards.  These calls are not counted in steps, and no other call is
\* made until the warm-up is over.
WarmUp ==
    /\ is_loaded
    /\ steps = 0
    /\ Len(cache) < WarmCount
    /\ ReturnBoard(generate_board(Now, Request30, <<100 + Len(cache)>>, 0))
    /\ lastCall' = [op |-> "generate_board", request |-> Request30,
                    seed |-> <<100 + Len(cache)>>, num_boards |-> 1]
    /\ UNCHANGED <<steps, files, dictVars, loadVars>>

EmptyCacheInit ==
    /\ cache = <<>>
    /\ result = NoItem
    /\ lastCall = NoCall
    /\ steps = 0
    /\ hist = NoHistory

\* the service after its start: the static word list loaded, the cache empty
Init ==
    /\ files = StaticFiles
    /\ dictionary_version = <<ParseVersion(StaticContent)>>
    /\ dictionary = StaticWords
    /\ trie_root = StaticTrie
    /\ is_loaded = TRUE
    /\ pc = [p \in Loaders |-> "idle"]
    /\ call = [p \in Loaders |-> "none"]
    /\ lpath = [p \in Loaders |-> WordlistPath]
    /\ sawLoaded = [p \in Loaders |-> FALSE]
    /\ reads = 1
    /\ EmptyCacheInit

Next ==
    \/ \E request \in Requests, s \in SingleSeeds : CallGenerateBoard(request, <<s>>, 0)
    \/ \E e \in Entropy : CallGenerateBoard(Request30, NoSeed, e)
    \/ \E request \in Requests, b \in BaseSeeds, k \in Counts :
           CallGenerateBoards(request, <<b>>, k, [i \in 1..k |-> 0])
    \/ \E entropy \in EntropyPairs : CallGenerateBoards(Request30, NoSeed, 2, entropy)
    \/ CallClearCache
    \/ WarmUp

Spec == Init /\ [][Next]_vars

(***************************************************************************)
(* Loading.  _load_dictionary is suspended while the file is opened, while *)
(* it is read and while it is closed (the end of the async with block);    *)
(* the assignments between two suspensions are one step.                   *)
(***************************************************************************)

\* a plausible slip: the shared index is reset before the existence test
LoadBegin_ResetsFirst(p, path) ==
    /\ lpath' = [lpath EXCEPT ![p] = path]
    /\ pc' = [pc EXCEPT ![p] = IF files[path].exists THEN "opening" ELSE "FileNotFoundError"]
    /\ is_loaded' = FALSE
    /\ UNCHANGED <<files, dictionary_version, dictionary, trie_root, reads, cacheVars>>

\* _load_dictionary from its call to its first suspension: the existence test
LoadBegin(p, path) ==
    /\ lpath' = [lpath EXCEPT ![p] = path]
    /\ pc' = [pc EXCEPT ![p] = IF files[path].exists THEN "opening" ELSE "FileNotFoundError"]
    /\ UNCHANGED <<files, dictVars, reads, cacheVars>>

\* a direct call of service._load_dictionary()
LoadDictionary(p, path) ==
    /\ pc[p] = "idle"
    /\ call' = [call EXCEPT ![p] = "load"]
    /\ UNCHANGED sawLoaded
    /\ LoadBegin(p, path)

\* a plausible slip: ensure_loaded without its test of the flag
EnsureLoaded_NoFlagTest(p, path) ==
    /\ pc[p] = "idle"
    /\ call' = [call EXCEPT ![p] = "ensure"]
    /\ sawLoaded' = [sawLoaded EXCEPT ![p] = is_loaded]
    /\ LoadBegin(p, path)

\* BoardService.ensure_loaded(wordlist_path)
EnsureLoaded(p, path) ==
    /\ pc[p] = "idle"
    /\ call' = [call EXCEPT ![p] = "ensure"]
    /\ sawLoaded' = [sawLoaded EXCEPT ![p] = is_loaded]
    /\ IF ~is_loaded
       THEN LoadBegin(p, path)
       ELSE /\ pc' = [pc EXCEPT ![p] = "done"]
            /\ lpath' = [lpath EXCEPT ![p] = path]
            /\ UNCHANGED <<files, dictVars, reads, cacheVars>>

\* aiofiles.open(...) has returned the file
FileOpened(p) ==
    /\ pc[p] = "opening"
    /\ pc' = [pc EXCEPT ![p] = "reading"]
    /\ UNCHANGED <<files, dictVars, call, lpath, sawLoaded, reads, cacheVars>>

\* a plausible slip: the loaded flag raised with the word set, before the trie
FileRead_FlagEarly(p) ==
    /\ pc[p] = "reading"
    /\ LET content == files[lpath[p]]
       IN /\ dictionary_version' = <<ParseVersion(content)>>
          /\ dictionary' = ParseWords(content)
    /\ is_loaded' = TRUE
    /\ reads' = reads + 1
    /\ pc' = [pc EXCEPT ![p] = "closing"]
    /\ UNCHANGED <<files, trie_root, call, lpath, sawLoaded, cacheVars>>

\* f.read() has returned: the version and the word set are assigned, then the
\* async with block is left
FileRead(p) ==
    /\ pc[p] = "reading"
    /\ LET content == files[lpath[p]]
       IN /\ dictionary_version' = <<ParseVersion(content)>>
          /\ dictionary' = ParseWords(content)
    /\ reads' = reads + 1
    /\ pc' = [pc EXCEPT ![p] = "closing"]
    /\ UNCHANGED <<files, trie_root, is_loaded, call, lpath, sawLoaded, cacheVars>>

\* the file is closed: the trie is built from the shared word set and the flag set
FileClosed(p) ==
    /\ pc[p] = "closing"
    /\ trie_root' = BuildTrie(dictionary)
    /\ is_loaded' = TRUE
    /\ pc' = [pc EXCEPT ![p] = "done"]
    /\ UNCHANGED <<files, dictionary_version, dictionary, call, lpath, sawLoaded, reads,
                   cacheVars>>

NotLoadedInit ==
    /\ dictionary_version = NoVersion
    /\ dictionary = {}
    /\ trie_root = NoTrie
    /\ is_loaded = FALSE
    /\ pc = [p \in Loaders |-> "idle"]
    /\ call = [p \in Loaders |-> "none"]
    /\ lpath = [p \in Loaders |-> WordlistPath]
    /\ sawLoaded = [p \in Loaders |-> FALSE]
    /\ reads = 0
    /\ EmptyCacheInit

(***************************************************************************)
(* SpecLoad: concurrent load and ensure_loaded calls on the three paths.   *)
(***************************************************************************)
InitLoad ==
    /\ files = StaticFiles
    /\ NotLoadedInit

NextLoad ==
    \E p \in Loaders :
        \/ \E path \in Paths : LoadDictionary(p, path)
        \/ \E path \in Paths : EnsureLoaded(p, path)
        \/ FileOpened(p)
        \/ FileRead(p)
        \/ FileClosed(p)

SpecLoad == InitLoad /\ [][NextLoad]_vars

(***************************************************************************)
(* SpecDict: one load of every word list within the bounds.                *)
(***************************************************************************)
BodyChars == {"a", "B", " ", "\n"}
QueryChars == {"a", "A", "B"}

RECURSIVE StringsOver(_, _)
StringsOver(chars, n) ==
    IF n = 0 THEN {<<>>}
    ELSE LET shorter == StringsOver(chars, n - 1)
         IN shorter \cup {Append(s, c) : s \in {t \in shorter : Len(t) = n - 1}, c \in chars}

Bodies == StringsOver(BodyChars, MaxBody)
Queries == StringsOver(QueryChars, MaxQuery)

InitDict ==
    /\ \E body \in Bodies :
           files = [p \in Paths |->
                       IF p = WordlistPath
                       THEN [exists |-> TRUE, header |-> <<"version", <<" ", "1">>>>,
                             body |-> body]
                       ELSE NoFile]
    /\ NotLoadedInit

NextDict ==
    \/ LoadDictionary(1, WordlistPath)
    \/ FileOpened(1)
    \/ FileRead(1)
    \/ FileClosed(1)

SpecDict == InitDict /\ [][NextDict]_vars

\* what a call gives: the exception it raised ("none" when it returned) and, in
\* response, the value it returned
Raise(error) == [error |-> error, response |-> <<>>]
Returned(value) == [error |-> "none", response |-> <<value>>]

(***************************************************************************)
(* Boards from a word list.  A path strategy returns [rng, path]: the      *)
(* stream after its draws and the path it found, <<>> for None.  An empty  *)
(* cell of a grid under construction holds "".                             *)
(***************************************************************************)
\* seq[i], seq[j] = seq[j], seq[i]
Swapped(seq, i, j) == [seq EXCEPT ![i] = seq[j], ![j] = seq[i]]

\* rng.shuffle(seq): from the last place down to the second, the item at place
\* i changes places with the item at a place drawn among the first i
RECURSIVE ShuffleFrom(_, _, _)
ShuffleFrom(rng, seq, i) ==
    IF i < 2 THEN [rng |-> rng, value |-> seq]
    ELSE ShuffleFrom(RngAfter(rng, 1), Swapped(seq, i, (RngBits(rng) % i) + 1), i - 1)

Shuffle(rng, seq) == ShuffleFrom(rng, seq, Len(seq))

\* the test all four strategies make of a next cell: on the board, not on the
\* path, and empty or holding the letter that comes next
CanStep(grid, word, path, cell) ==
    /\ cell[1] >= 0 /\ cell[1] < Len(grid) /\ cell[2] >= 0 /\ cell[2] < Len(grid)
    /\ \A i \in 1..Len(path) : path[i] # cell
    /\ CellAt(grid, cell[1], cell[2]) \in {"", word[Len(path) + 1]}

\* the directions of ds, in order, in which the path can step on from its end
OpenDirs(grid, word, path, ds) ==
    LET Open(d) == CanStep(grid, word, path,
                           <<path[Len(path)][1] + d[1], path[Len(path)][2] + d[2]>>)
    IN SelectSeq(ds, Open)

\* the path with one more cell, in direction d from its end
StepTo(path, d) == Append(path, <<path[Len(path)][1] + d[1], path[Len(path)][2] + d[2]>>)

\* the inner loop of _find_snake_path: on in direction d while that is open,
\* else on in the first open one of the shuffled turns, else stop; open is
\* the open ones of the turns, rng the stream after their shuffle
RECURSIVE SnakeWalk(_, _, _, _, _)
RECURSIVE SnakeTurn(_, _, _, _, _)
SnakeTurn(grid, word, path, rng, open) ==
    IF open = <<>> THEN [rng |-> rng, path |-> path]
    ELSE SnakeWalk(grid, word, rng, StepTo(path, open[1]), open[1])

SnakeWalk(grid, word, rng, path, d) ==
    IF Len(path) >= Len(word) THEN [rng |-> rng, path |-> path]
    ELSE IF OpenDirs(grid, word, path, <<d>>) # <<>>
    THEN SnakeWalk(grid, word, rng, StepTo(path, d), d)
    ELSE SnakeTurn(grid, word, path, RngAfter(rng, 3),
                   OpenDirs(grid, word, path,
                            Shuffle(rng, << <<d[2], -d[1]>>, <<-d[2], d[1]>>,
                                            <<-d[1], -d[2]>>, d >>).value))

\* the outer loop of _find_snake_path over the shuffled directions, from the
\* k-th on; walked is what the walk in the direction before gave
RECURSIVE SnakeFrom(_, _, _, _, _, _)
SnakeFrom(grid, word, start, directions, k, walked) ==
    IF Len(walked.path) = Len(word) THEN walked
    ELSE IF k > Len(directions) THEN [rng |-> walked.rng, path |-> <<>>]
    ELSE SnakeFrom(grid, word, start, directions, k + 1,
                   SnakeWalk(grid, word, walked.rng, <<start>>, directions[k]))

\* _find_snake_path(grid, word, start_row, start_col, rng); shuffled is the
\* shuffle of the eight directions
FindSnakePath(grid, word, start, shuffled) ==
    SnakeFrom(grid, word, start, shuffled.value, 1, [rng |-> shuffled.rng, path |-> <<>>])

\* the direction of the i-th step of a shape: an L (two directions) turns after
\* the first half of the word, a spiral (four) takes its directions in turn
ShapeDir(shape, word, i) ==
    IF Len(shape) = 2 THEN shape[IF i <= Len(word) \div 2 THEN 1 ELSE 2]
    ELSE shape[((i - 1) % Len(shape)) + 1]

\* the loops of _find_l_shape_path and _find_spiral_path over the cells of one
\* shape: the path goes on step by step and stops where it cannot
RECURSIVE WalkAlong(_, _, _, _)
WalkAlong(grid, word, path, shape) ==
    IF Len(path) >= Len(word)
          \/ OpenDirs(grid, word, path, <<ShapeDir(shape, word, Len(path))>>) = <<>>
    THEN path
    ELSE WalkAlong(grid, word, StepTo(path, ShapeDir(shape, word, Len(path))), shape)

\* their loops over the shuffled shapes, from the k-th on: the first walk that
\* is complete; walked is the walk along the shape before
RECURSIVE FirstShape(_, _, _, _, _, _)
FirstShape(grid, word, start, shapes, k, walked) ==
    IF Len(walked) = Len(word) THEN walked
    ELSE IF k > Len(shapes) THEN <<>>
    ELSE FirstShape(grid, word, start, shapes, k + 1,
                    WalkAlong(grid, word, <<start>>, shapes[k]))

\* _find_l_shape_path: the first half of the word in one direction, the rest
\* in the other
FindLShapePath(grid, word, start, rng) ==
    IF Len(word) < 3 THEN [rng |-> rng, path |-> <<>>]
    ELSE [rng |-> RngAfter(rng, 3),
          path |-> FirstShape(grid, word, start,
                      Shuffle(rng, << << <<0, 1>>, <<1, 0>> >>, << <<0, 1>>, <<-1, 0>> >>,
                                      << <<1, 0>>, <<0, 1>> >>, << <<1, 0>>, <<0, -1>> >> >>).value,
                      1, <<>>)]

\* _find_spiral_path: the four directions of a spiral in turn, one cell each
FindSpiralPath(grid, word, start, rng) ==
    IF Len(word) < 4 THEN [rng |-> rng, path |-> <<>>]
    ELSE [rng |-> RngAfter(rng, 3),
          path |-> FirstShape(grid, word, start,
                      Shuffle(rng, << << <<0, 1>>, <<1, 0>>, <<0, -1>>, <<-1, 0>> >>,
                                      << <<1, 0>>, <<0, 1>>, <<-1, 0>>, <<0, -1>> >>,
                                      << <<0, -1>>, <<-1, 0>>, <<0, 1>>, <<1, 0>> >>,
                                      << <<-1, 0>>, <<0, -1>>, <<1, 0>>, <<0, 1>> >> >>).value,
                      1, <<>>)]

\* _find_random_walk_path: at each step the first open one of the eight
\* directions, shuffled anew; open is the open ones of the shuffle for the
\* step to come, rng the stream after that shuffle
RECURSIVE RandomWalk(_, _, _, _, _)
RandomWalk(grid, word, path, rng, open) ==
    IF open = <<>> THEN [rng |-> rng, path |-> <<>>]
    ELSE IF Len(path) + 1 = Len(word) THEN [rng |-> rng, path |-> StepTo(path, open[1])]
    ELSE RandomWalk(grid, word, StepTo(path, open[1]), RngAfter(rng, 7),
                    OpenDirs(grid, word, StepTo(path, open[1]), Shuffle(rng, dirs).value))

FindRandomWalkPath(grid, word, start, rng) ==
    IF Len(word) < 2 THEN [rng |-> rng, path |-> <<start>>]
    ELSE RandomWalk(grid, word, <<start>>, RngAfter(rng, 7),
                    OpenDirs(grid, word, <<start>>, Shuffle(rng, dirs).value))

\* strategy(grid, word, start_row, start_col, rng), the strategy named
StrategyPath(strategy, grid, word, start, rng) ==
    CASE strategy = "snake" -> FindSnakePath(grid, word, start, Shuffle(rng, dirs))
      [] strategy = "l_shape" -> FindLShapePath(grid, word, start, rng)
      [] strategy = "spiral" -> FindSpiralPath(grid, word, start, rng)
      [] strategy = "random_walk" -> FindRandomWalkPath(grid, word, start, rng)

\* the loop of _find_word_path over the shuffled strategies, from the k-th on;
\* found is what the strategy before gave
RECURSIVE FirstStrategy(_, _, _, _, _, _)
FirstStrategy(grid, word, start, strategies, k, found) ==
    IF found.path # <<>> /\ Len(found.path) = Len(word) THEN found
    ELSE IF k > Len(strategies) THEN [rng |-> found.rng, path |-> <<>>]
    ELSE FirstStrategy(grid, word, start, strategies, k + 1,
                       StrategyPath(strategies[k], grid, word, start, found.rng))

\* _find_word_path(grid, word, start_row, start_col, rng); shuffled is the
\* shuffle of the four strategies
FindWordPath(grid, word, start, shuffled) ==
    FirstStrategy(grid, word, start, shuffled.value, 1, [rng |-> shuffled.rng, path |-> <<>>])

PlaceMaxAttempts == 200
RetryMaxAttempts == 50
RegenerateTries == 10

\* a plausible slip: the attempt reports the word placed and does not write it
PlaceAlong_NotWritten(grid, word, found) ==
    [rng |-> found.rng, grid |-> grid, placed |-> found.path # <<>>, path |-> found.path]

\* the end of one attempt of _try_place_word_complex: the word is written
\* along the path that was found; path is that path, <<>> when there is none
PlaceAlong(grid, word, found) ==
    IF found.path # <<>>
    THEN [rng |-> found.rng, grid |-> WriteAlongPath(grid, found.path, word), placed |-> TRUE,
          path |-> found.path]
    ELSE [rng |-> found.rng, grid |-> grid, placed |-> FALSE, path |-> <<>>]

\* one attempt: a start cell is drawn, row then column, and a path is looked for
PlaceOnce(grid, word, rng) ==
    PlaceAlong(grid, word,
               FindWordPath(grid, word,
                            <<RandRange(rng, Len(grid)).value,
                              RandRange(RngAfter(rng, 1), Len(grid)).value>>,
                            Shuffle(RngAfter(rng, 2),
                                    <<"snake", "l_shape", "spiral", "random_walk">>)))

\* what an attempt gave, with the number of start cells drawn so far
Started(starts, tried) ==
    [rng |-> tried.rng, grid |-> tried.grid, placed |-> tried.placed, path |-> tried.path,
     starts |-> starts]

\* attempts attempts of _try_place_word_complex, one after the other until one
\* places the word (split in halves)
RECURSIVE PlaceLoop(_, _, _)
PlaceLoop(word, st, attempts) ==
    IF attempts = 0 \/ st.placed THEN st
    ELSE IF attempts = 1 THEN Started(st.starts + 1, PlaceOnce(st.grid, word, st.rng))
    ELSE PlaceLoop(word, PlaceLoop(word, st, attempts \div 2), attempts - (attempts \div 2))

\* a plausible slip: the loop runs once more than max_attempts
TryPlaceWordComplex_OneMore(grid, word, rng) ==
    PlaceLoop(Upper(word),
              [rng |-> rng, grid |-> grid, placed |-> FALSE, path |-> <<>>, starts |-> 0],
              PlaceMaxAttempts + 1)

\* _try_place_word_complex(grid, word, rng)
TryPlaceWordComplex(grid, word, rng) ==
    PlaceLoop(Upper(word),
              [rng |-> rng, grid |-> grid, placed |-> FALSE, path |-> <<>>, starts |-> 0],
              PlaceMaxAttempts)

\* sorted(words, key=len, reverse=True): longest first, words of one length in
\* the order they have in words
SortedByLength(words) ==
    [i \in 1..Len(words) |->
        words[CHOOSE j \in 1..Len(words) :
                 Cardinality({k \in 1..Len(words) :
                                 \/ Len(words[k]) > Len(words[j])
                                 \/ Len(words[k]) = Len(words[j]) /\ k < j}) = i - 1]]

\* the loop over sorted_words, from the k-th on; st holds the stream, the grid
\* and the number of words placed, tried is what the try of the word before gave
RECURSIVE PlaceWords(_, _, _, _)
PlaceWords(sorted_words, k, count, tried) ==
    IF k > Len(sorted_words)
    THEN [rng |-> tried.rng, grid |-> tried.grid, count |-> count + (IF tried.placed THEN 1 ELSE 0)]
    ELSE PlaceWords(sorted_words, k + 1, count + (IF tried.placed THEN 1 ELSE 0),
                    TryPlaceWordComplex(tried.grid, sorted_words[k], tried.rng))

\* an empty grid, and the words placed on it
PlaceAll(board_size, words, rng) ==
    PlaceWords(SortedByLength(words), 1, 0,
               [rng |-> rng, placed |-> FALSE,
                grid |-> [x \in 1..board_size |-> [y \in 1..board_size |-> ""]]])

\* a plausible slip: the last row is not filled
FillEmpty_LastRowLeft(grid, rng) ==
    LET n == Len(grid)
        empty == {c \in (1..(n - 1)) \X (1..n) : grid[c[1]][c[2]] = ""}
        Before(x, y) == Cardinality({c \in empty : c[1] < x \/ (c[1] = x /\ c[2] < y)})
    IN [rng |-> RngAfter(rng, Cardinality(empty)),
        value |-> [x \in 1..n |-> [y \in 1..n |->
                      IF grid[x][y] = "" /\ x < n
                      THEN GenerateRandomLetter(RngAfter(rng, Before(x, y))).value
                      ELSE grid[x][y]]]]

\* the cells that are still empty get a random letter each, row by row
FillEmpty(grid, rng) ==
    LET n == Len(grid)
        empty == {c \in (1..n) \X (1..n) : grid[c[1]][c[2]] = ""}
        Before(x, y) == Cardinality({c \in empty : c[1] < x \/ (c[1] = x /\ c[2] < y)})
    IN [rng |-> RngAfter(rng, Cardinality(empty)),
        value |-> [x \in 1..n |-> [y \in 1..n |->
                      IF grid[x][y] = ""
                      THEN GenerateRandomLetter(RngAfter(rng, Before(x, y))).value
                      ELSE grid[x][y]]]]

\* _generate_board_from_word_list(board_size, words, rng); placed is PlaceAll
FillPlaced(placed) == FillEmpty(placed.grid, placed.rng)

GenerateBoardFromWordList(board_size, words, rng) ==
    FillPlaced(PlaceAll(board_size, words, rng))

\* A loop state of _generate_board_from_word_list_with_retry holds the stream,
\* best (<<>> or <<best_grid>>) with best_count, and returned: <<>> or <<the
\* grid the loop returned>>.  It also keeps a record of the passes in their
\* order: the grid of each pass before any fill, and len(placed_words).

\* the pass is recorded
PassDone(st, placed) ==
    [st EXCEPT !.passes = Append(@, [grid |-> placed.grid, count |-> placed.count])]

\* a plausible slip: the comparison with the best count turned round
RetryJudge_ComparisonTurned(st, words, placed) ==
    IF placed.count = Len(words)
    THEN [PassDone(st, placed) EXCEPT !.rng = FillPlaced(placed).rng,
                                      !.returned = <<FillPlaced(placed).value>>]
    ELSE IF placed.count < st.best_count
    THEN [PassDone(st, placed) EXCEPT !.rng = placed.rng, !.best = <<placed.grid>>,
                                      !.best_count = placed.count]
    ELSE [PassDone(st, placed) EXCEPT !.rng = placed.rng]

\* the end of one attempt, placed being PlaceAll of the attempt
RetryJudge(st, words, placed) ==
    IF placed.count = Len(words)
    THEN [PassDone(st, placed) EXCEPT !.rng = FillPlaced(placed).rng,
                                      !.returned = <<FillPlaced(placed).value>>]
    ELSE IF placed.count > st.best_count
    THEN [PassDone(st, placed) EXCEPT !.rng = placed.rng, !.best = <<placed.grid>>,
                                      !.best_count = placed.count]
    ELSE [PassDone(st, placed) EXCEPT !.rng = placed.rng]

RECURSIVE RetryLoop(_, _, _, _)
RetryLoop(board_size, words, st, attempts) ==
    IF attempts = 0 \/ st.returned # <<>> THEN st
    ELSE IF attempts = 1 THEN RetryJudge(st, words, PlaceAll(board_size, words, st.rng))
    ELSE RetryLoop(board_size, words, RetryLoop(board_size, words, st, attempts \div 2),
                   attempts - (attempts \div 2))

\* what _generate_board_from_word_list_with_retry returns when the loop is over
RetryResult(board_size, end) ==
    IF end.returned # <<>> THEN [rng |-> end.rng, value |-> end.returned[1]]
    ELSE IF end.best # <<>> THEN FillEmpty(end.best[1], end.rng)
    ELSE GenerateGrid(board_size, end.rng)

\* the loop state _generate_board_from_word_list_with_retry ends with
RetryEnd(board_size, words, rng) ==
    RetryLoop(board_size, words,
              [rng |-> rng, best |-> <<>>, best_count |-> 0, returned |-> <<>>,
               passes |-> <<>>],
              RetryMaxAttempts)

\* _generate_board_from_word_list_with_retry(board_size, words, rng)
GenerateBoardFromWordListWithRetry(board_size, words, rng) ==
    RetryResult(board_size, RetryEnd(board_size, words, rng))

\* a plausible slip: a string of min_length letters is added to the results
\* without the test that it is a word of the list
RECURSIVE DfsFindWordsFromList_NoMembershipTest(_, _, _, _, _, _, _)
DfsFindWordsFromList_NoMembershipTest(grid, x, y, visited, prefix, min_length, word_set) ==
    LET word == Append(prefix, CellAt(grid, x, y))
    IN IF ~\E w \in word_set : Len(w) >= Len(word) /\ SubSeq(w, 1, Len(word)) = word
       THEN {}
       ELSE (IF Len(word) >= min_length THEN {word} ELSE {})
            \cup UNION {DfsFindWordsFromList_NoMembershipTest(grid, c[1], c[2],
                                                              visited \cup {c}, word,
                                                              min_length, word_set) :
                           c \in SeqRange(GetNeighbors(Len(grid), x, y)) \ visited}

\* _dfs_find_words_from_list, returning the words it adds to results
RECURSIVE DfsFindWordsFromList(_, _, _, _, _, _, _)
DfsFindWordsFromList(grid, x, y, visited, prefix, min_length, word_set) ==
    LET word == Append(prefix, CellAt(grid, x, y))
    IN IF ~\E w \in word_set : Len(w) >= Len(word) /\ SubSeq(w, 1, Len(word)) = word
       THEN {}
       ELSE (IF Len(word) >= min_length /\ word \in word_set THEN {word} ELSE {})
            \cup UNION {DfsFindWordsFromList(grid, c[1], c[2], visited \cup {c}, word,
                                              min_length, word_set) :
                           c \in SeqRange(GetNeighbors(Len(grid), x, y)) \ visited}

\* _find_words_from_list(grid, word_list, min_length)
FindWordsFromList(grid, word_list, min_length) ==
    UNION {DfsFindWordsFromList(grid, x, y, {<<x, y>>}, <<>>, min_length, SeqRange(word_list)) :
              x \in 0..(Len(grid) - 1), y \in 0..(Len(grid) - 1)}

\* a plausible slip: the words are put in upper case and not stripped
ValidWords_NotStripped(request) ==
    LET Long(w) == Len(Strip(w)) >= request.min_word_length
    IN [i \in 1..Len(SelectSeq(request.words, Long)) |->
           Upper(SelectSeq(request.words, Long)[i])]

\* valid_words: the words of the request that have min_word_length characters
\* when stripped, in upper case and stripped
ValidWords(request) ==
    LET Long(w) == Len(Strip(w)) >= request.min_word_length
    IN [i \in 1..Len(SelectSeq(request.words, Long)) |->
           Strip(Upper(SelectSeq(request.words, Long)[i]))]

\* the grid of one generation, by the mode of the request
WordListGrid(request, valid_words, rng) ==
    IF request.try_place_all_words
    THEN GenerateBoardFromWordListWithRetry(request.board_size, valid_words, rng)
    ELSE GenerateBoardFromWordList(request.board_size, valid_words, rng)

\* found_words = sorted(self._find_words_from_list(grid, valid_words, min_word_length))
FoundWords(request, valid_words, grid) ==
    Sorted(FindWordsFromList(grid, valid_words, request.min_word_length))

\* a grid that was made, with the number of grids the call has made so far
\* and the stream as the first of them left it
Built(built, first, made) ==
    [rng |-> made.rng, value |-> made.value, built |-> built, first |-> first.rng]

\* the first grid of a call
FirstBuilt(made) == Built(1, made, made)

\* the regeneration loop: while a found word is not an input word and tries
\* are left, the grid is generated again; made is [rng, value, built] of the
\* grid
RECURSIVE Regenerate(_, _, _, _)
Regenerate(request, valid_words, made, tries) ==
    IF tries = 0 \/ SeqRange(FoundWords(request, valid_words, made.value))
                       \subseteq SeqRange(valid_words)
    THEN made
    ELSE Regenerate(request, valid_words,
                    Built(made.built + 1, [rng |-> made.first],
                          WordListGrid(request, valid_words, made.rng)),
                    tries - 1)

\* the response of generate_board_from_words on the grid it ends with
WordBoard(request, valid_words, made) ==
    BoardOfWords(made.value, FoundWords(request, valid_words, made.value), request.board_size)

\* what generate_board_from_words returns on the grid it ends with, and the
\* record of the call: the number of grids it made, the stream after the
\* first of them and the stream it leaves
WordsAnswer(request, valid_words, made) ==
    [error |-> "none", response |-> <<WordBoard(request, valid_words, made)>>,
     built |-> made.built, first |-> made.first, rng |-> made.rng]

\* a plausible slip: the test of valid_words is left out
GenerateBoardFromWords_NoTest(request, rng) ==
    WordsAnswer(request, ValidWords(request),
                Regenerate(request, ValidWords(request),
                           FirstBuilt(WordListGrid(request, ValidWords(request), rng)),
                           RegenerateTries))

\* generate_board_from_words(request, seed=...), rng being random.Random(seed)
GenerateBoardFromWords(request, rng) ==
    IF ValidWords(request) = <<>>
    THEN Raise("ValueError")
    ELSE WordsAnswer(request, ValidWords(request),
                     Regenerate(request, ValidWords(request),
                                FirstBuilt(WordListGrid(request, ValidWords(request), rng)),
                                RegenerateTries))

(***************************************************************************)
(* SpecWords: boards from word lists.  A behaviour may load the static     *)
(* word list or start with it loaded, may make one call of generate_board, *)
(* and makes one direct call of generate_board_from_words or of            *)
(* _compute_richness.                                                      *)
(***************************************************************************)
MaxWordSeed == 2     \* the seeds of generate_board_from_words are 0..MaxWordSeed

WordSeeds == 0..MaxWordSeed

\* word lists that leave one word of three letters when filtered
SingleWordLists ==
    {<< <<"C","A","T">> >>,
     << <<"d","o","g">> >>,
     << <<" ","c","a","t"," ">>, <<"t","o">> >>}

\* word lists with several words, with words in lower case, padded words and
\* words too short; the last two leave no word when filtered
MixedWordLists ==
    {<< <<"c","a","t">>, <<"D","O","G">> >>,
     << <<"A","B","B","A">>, <<"B","A","B">>, <<" ","a","b"," ">>, <<"A","B","A","B">> >>,
     << <<"C","O","A","T">>, <<"C","A","T">>, <<"T","O">> >>,
     << <<"T","O">> >>,
     << <<" ","a","b"," ">>, <<" "," "," ">> >>}

\* a word that has more letters than a board of three by three has cells,
\* alone and with a word that fits
LongWordLists ==
    {<< <<"A","B","C","D","E","F","G","H","I","J">> >>,
     << <<"A","B","C","D","E","F","G","H","I","J">>, <<"C","A","T">> >>}

\* WordBasedBoardGenerationRequest(board_size, words, min_word_length,
\* try_place_all_words): board_size in 3..10, one word at least,
\* min_word_length from 3 on
WordRequest(board_size, words, min_word_length, try_place_all_words) ==
    [board_size |-> board_size, words |-> words, min_word_length |-> min_word_length,
     try_place_all_words |-> try_place_all_words]

WordRequests ==
    {WordRequest(n, ws, 3, t) : n \in 3..10, ws \in SingleWordLists, t \in BOOLEAN}
    \cup {WordRequest(n, ws, m, t) :
             n \in 3..4, ws \in MixedWordLists, m \in 3..4, t \in BOOLEAN}
    \cup {WordRequest(3, ws, 3, FALSE) : ws \in LongWordLists}

\* the requests that have no word of min_word_length characters
ShortWordRequests ==
    {WordRequest(n, ws, m, t) :
        n \in 3..4, m \in 3..4, t \in BOOLEAN,
        ws \in {<< <<"T","O">> >>, << <<" ","a","b"," ">>, <<" "," "," ">> >>}}

\* a direct call of service.generate_board_from_words(request, seed=seed); the
\* method reads and writes neither the dictionary nor the cache
CallGenerateBoardFromWords(request, seed) ==
    /\ result' = GenerateBoardFromWords(request, RandomOf(seed))
    /\ lastCall' = [op |-> "generate_board_from_words", request |-> request,
                    seed |-> <<seed>>, num_boards |-> 1]
    /\ steps' = steps + 1
    /\ UNCHANGED <<files, dictVars, loadVars, cache, hist>>

\* the word lists _compute_richness is called with: count words of length
\* letters each, and one more of one letter when odd
RichnessCounts == {0, 1, 2, 4, 5, 8, 18, 50, 51}
RichnessLengths == {1, 3, 6, 7, 15, 16, 25}

RichnessWords(count, length, odd) ==
    [i \in 1..count |-> [j \in 1..length |-> "A"]]
    \o (IF odd THEN << <<"A">> >> ELSE <<>>)

\* a direct call of service._compute_richness(words, board_size)
CallComputeRichness(words, board_size) ==
    /\ result' = Returned(ComputeRichness(words, board_size))
    /\ lastCall' = [op |-> "_compute_richness",
                    request |-> [board_size |-> board_size, words |-> words],
                    seed |-> NoSeed, num_boards |-> 0]
    /\ steps' = steps + 1
    /\ UNCHANGED <<files, dictVars, loadVars, cache, hist>>

InitWords ==
    \/ Init
    \/ files = StaticFiles /\ NotLoadedInit

\* a call from a word list may come when none has been made; it is the
\* first call of the behaviour, but for the requests of ShortWordRequests,
\* which may also come after a call of generate_board and during a load
WordsCallable == steps <= 1 /\ lastCall.op \in {"none", "generate_board"}

NextWords ==
    \/ LoadDictionary(1, WordlistPath)
    \/ FileOpened(1)
    \/ FileRead(1)
    \/ FileClosed(1)
    \/ steps = 0 /\ \E s \in {0, 1} : CallGenerateBoard(Request30, <<s>>, 0)
    \/ steps = 0 /\ pc[1] = "idle"
           /\ \E request \in WordRequests, seed \in WordSeeds :
                  CallGenerateBoardFromWords(request, seed)
    \/ WordsCallable /\ \E request \in ShortWordRequests, seed \in WordSeeds :
                            CallGenerateBoardFromWords(request, seed)
    \/ steps = 0 /\ \E count \in RichnessCounts, length \in RichnessLengths,
                       odd \in BOOLEAN, board_size \in 3..10 :
                            CallComputeRichness(RichnessWords(count, length, odd), board_size)

SpecWords == InitWords /\ [][NextWords]_vars

(***************************************************************************)
(* SpecFill: one direct call of generate_board_from_words in a behaviour,  *)
(* also on word lists that do not fit the board: a word longer than the    *)
(* board has cells, which makes the mode that places all words use all its *)
(* attempts, and two words that have more letters together than the board  *)
(* has cells.  They are called under one seed.                             *)
(***************************************************************************)
UnplaceableWordLists ==
    {<< <<"A","B","C","D","E","F","G","H","I","J">> >>,
     << <<"A","B","C","D","E">>, <<"F","G","H","I","J">> >>}

UnplaceableRequests == {WordRequest(3, ws, 3, TRUE) : ws \in UnplaceableWordLists}

InitFill == files = StaticFiles /\ NotLoadedInit

NextFill ==
    \/ steps = 0 /\ \E request \in WordRequests, seed \in WordSeeds :
                       CallGenerateBoardFromWords(request, seed)
    \/ steps = 0 /\ \E request \in UnplaceableRequests :
                       CallGenerateBoardFromWords(request, 0)

SpecFill == InitFill /\ [][NextFill]_vars

(***************************************************************************)
(* SpecSearch: one load of a small word list, and one direct call of the   *)
(* service on an explicit grid in a behaviour.  The word list has a word   *)
(* that needs the same letter twice and a word whose three-letter prefix   *)
(* is no word.                                                             *)
(***************************************************************************)
SearchContent ==
    [exists |-> TRUE,
     header |-> <<"version", <<" ", "3">>>>,
     body |-> <<"A","B","A","\n", "a","a","b","\n", "A","B","B","A","\n">>]

SearchFiles == [p \in Paths |-> IF p = WordlistPath THEN SearchContent ELSE NoFile]

\* the 3 x 3 grids of the letters A and B
SearchGrids ==
    {[x \in 1..3 |-> [y \in 1..3 |-> drawn[(x - 1) * 3 + y]]] : drawn \in [1..9 -> {"A", "B"}]}

\* a plausible slip: an unset version read as version 0
DictionaryVersion_ZeroWhenUnset(version) ==
    IF version = NoVersion THEN Returned(0) ELSE Returned(version[1])

\* the dictionary_version property
DictionaryVersion(version) ==
    IF version = NoVersion THEN Raise("RuntimeError") ELSE Returned(version[1])

\* MoveValidationRequest(board, move_coordinates, min_word_length): the field
\* constraints, then the model validator
MoveValidationRequest(grid, path, min_length) ==
    IF Len(path) < 3 \/ Len(path) > 16 \/ min_length < 3 THEN Raise("ValidationError")
    ELSE IF Len(path) > Len(grid) * Len(grid) THEN Raise("ValueError: at most")
    ELSE IF \E k \in 1..Len(path) :
                \/ path[k][1] < 0 \/ path[k][1] >= Len(grid)
                \/ path[k][2] < 0 \/ path[k][2] >= Len(grid)
         THEN Raise("ValueError: within the board")
    ELSE IF \E k \in 2..Len(path) :
                \/ path[k][1] - path[k - 1][1] \notin {-1, 0, 1}
                \/ path[k][2] - path[k - 1][2] \notin {-1, 0, 1}
         THEN Raise("ValueError: adjacent")
    ELSE IF Cardinality(SeqRange(path)) # Len(path) THEN Raise("ValueError: unique")
    ELSE Returned([grid |-> grid, path |-> path, min_length |-> min_length])

\* MoveValidationResponse(**given): is_valid, word and score are required fields
MoveValidationResponse(given) ==
    IF {"is_valid", "word", "score"} \subseteq DOMAIN given
    THEN Returned(given)
    ELSE Raise("ValidationError")

\* a list index of Python: an index from -n to -1 counts from the end
IndexOf(n, i) == IF i < 0 THEN i + n ELSE i

\* validate_move(request): the flag, the word along the path, the response
validate_move(loaded, root, grid, path, min_length) ==
    IF ~loaded THEN Raise("RuntimeError")
    ELSE IF \E k \in 1..Len(path) :
                \/ path[k][1] < -Len(grid) \/ path[k][1] >= Len(grid)
                \/ path[k][2] < -Len(grid) \/ path[k][2] >= Len(grid)
         THEN Raise("IndexError")
    ELSE LET word == Upper([k \in 1..Len(path) |->
                               CellAt(grid, IndexOf(Len(grid), path[k][1]),
                                      IndexOf(Len(grid), path[k][2]))])
         IN IF Len(word) < min_length
            THEN MoveValidationResponse([is_valid |-> FALSE, word |-> word])
            ELSE MoveValidationResponse([is_valid |-> IsWordIn(root, word), word |-> word])

\* the board and the paths of the validate_move calls: three coordinates, the
\* last one on the board, beside it or far from it
MoveGrid == << <<"A", "B", "A">>, <<"B", "B", "A">>, <<"a", "A", "B">> >>
MovePaths ==
    {<<c1, c2, c3>> : c1 \in (0..2) \X (0..2), c2 \in (0..2) \X (0..2),
                      c3 \in {-4, -3, -1, 0, 1, 2, 3} \X {-4, -3, -1, 0, 1, 2, 3}}

\* a call service.validate_move(request) at any time; constructed tells what
\* the constructor of MoveValidationRequest does on the same arguments
CallValidateMove(grid, path, min_length) ==
    /\ steps = 0
    /\ result' = validate_move(is_loaded, trie_root, grid, path, min_length)
    /\ lastCall' = [op |-> "validate_move", grid |-> grid, path |-> path,
                    min_length |-> min_length,
                    constructed |-> MoveValidationRequest(grid, path, min_length).error]
    /\ steps' = steps + 1
    /\ UNCHANGED <<files, dictVars, loadVars, cache, hist>>

\* a read of service.dictionary_version at any time
CallDictionaryVersion ==
    /\ steps = 0
    /\ result' = DictionaryVersion(dictionary_version)
    /\ lastCall' = [op |-> "dictionary_version", grid |-> <<>>, path |-> <<>>,
                    min_length |-> 0, constructed |-> "none"]
    /\ steps' = steps + 1
    /\ UNCHANGED <<files, dictVars, loadVars, cache, hist>>

\* a call self.find_words(grid, min_length), made as _do_generate_board makes
\* it: the dictionary is loaded
CallFindWords(grid, min_length) ==
    /\ is_loaded
    /\ steps = 0
    /\ result' = FindWords(trie_root, grid, min_length)
    /\ lastCall' = [op |-> "find_words", grid |-> grid, path |-> <<>>,
                    min_length |-> min_length, constructed |-> "none"]
    /\ steps' = steps + 1
    /\ UNCHANGED <<files, dictVars, loadVars, cache, hist>>

InitSearch ==
    /\ files = SearchFiles
    /\ NotLoadedInit

NextSearch ==
    \/ LoadDictionary(1, WordlistPath)
    \/ FileOpened(1)
    \/ FileRead(1)
    \/ FileClosed(1)
    \/ steps = 0 /\ \E grid \in SearchGrids, min_length \in 3..4 :
                        CallFindWords(grid, min_length)
    \/ steps = 0 /\ \E path \in MovePaths, min_length \in 3..4 :
                        CallValidateMove(MoveGrid, path, min_length)
    \/ CallDictionaryVersion

SpecSearch == InitSearch /\ [][NextSearch]_vars

(***************************************************************************)
(* SpecParts: direct calls of the parts of the generators, the static word *)
(* list loaded: _do_generate_board, _seed_word_path, and the calls of      *)
(* _try_place_word_complex that one placement pass makes, one a step       *)
(* (_generate_board_from_word_list, the loop over sorted_words), and       *)
(* _generate_board_from_word_list_with_retry.                              *)
(***************************************************************************)
MaxPartSeed == 4     \* the seeds of the direct calls are 0..MaxPartSeed

PartSeeds == 0..MaxPartSeed

\* the requests of the direct calls of _do_generate_board
PartRequests ==
    {[board_size |-> 3, target_richness |-> t, min_word_length |-> 3, min_word_count |-> c] :
        t \in {10, 30, 70, 100}, c \in {0, 1, 3, 9}}

\* what a direct call of _do_generate_board shows: the board it returns and the
\* record of its loop
GeneratedOf(end) ==
    [board |-> LoopResult(end), rounds |-> end.rounds, grids |-> end.grids,
     attempts |-> end.attempts]

CallDoGenerateBoard(request, seed) ==
    /\ is_loaded
    /\ steps = 0
    /\ result' = GeneratedOf(DoGenerateEnd(trie_root, dictionary, request, RandomOf(seed)))
    /\ lastCall' = [op |-> "_do_generate_board", request |-> request, seed |-> <<seed>>,
                    num_boards |-> 1]
    /\ steps' = 1
    /\ UNCHANGED <<files, dictVars, loadVars, cache, hist>>

\* the words of the direct calls of _seed_word_path: of 3, 4, 9 and 10 letters
SeedWords ==
    {<<"C","A","T">>, <<"c","o","a","t">>,
     <<"A","B","C","D","E","F","G","H","I">>,
     <<"A","B","C","D","E","F","G","H","I","J">>}

\* _seed_word_path(grid, word, rng) on the grid _generate_board makes from the
\* stream of grid_seed
CallSeedWordPath(grid_seed, word, seed) ==
    /\ steps = 0
    /\ result' = SeedPick(GenerateGrid(3, RandomOf(grid_seed)).value,
                          [value |-> word, rng |-> RandomOf(seed)])
    /\ lastCall' = [op |-> "_seed_word_path",
                    request |-> [grid |-> GenerateGrid(3, RandomOf(grid_seed)).value,
                                 word |-> word],
                    seed |-> <<seed>>, num_boards |-> 1]
    /\ steps' = 1
    /\ UNCHANGED <<files, dictVars, loadVars, cache, hist>>

\* the word lists of the placement passes on a board of 3 by 3, longest word
\* first as the pass takes them
PassWordLists ==
    {SortedByLength(ws) :
        ws \in {<< <<"C","A","T">> >>,
                << <<"C","A","T">>, <<"D","O","G">> >>,
                << <<"C","A","T">>, <<"D","O","G">>, <<"B","A","T">> >>,
                << <<"C","A","T">>, <<"C","O","A","T">> >>,
                << <<"T","O","A","D">>, <<"D","O","T">>, <<"O","A","T">> >>,
                << <<"A","B","C","D","E">>, <<"F","G","H","I">> >>,
                << <<"C","A","T">>, <<"A","B","C","D","E","F","G","H","I">> >>,
                << <<"A","B","C","D","E","F","G","H","I","J">>, <<"C","A","T">> >>}}

\* grid = [["" for _ in range(board_size)] for _ in range(board_size)]
EmptyGrid(board_size) == [x \in 1..board_size |-> [y \in 1..board_size |-> ""]]

\* what a call of _try_place_word_complex in a pass shows: what the call gave,
\* its word, the grid it was given, and the words placed before it in the pass
\* with their paths
PassCalled(tried, word, before) ==
    [rng |-> tried.rng, grid |-> tried.grid, placed |-> tried.placed, path |-> tried.path,
     starts |-> tried.starts, word |-> word, before |-> before.grid,
     earlier |-> before.earlier]

\* the k-th call of _try_place_word_complex of the pass over words; before
\* holds the grid and the stream the call is given
PlaceCall(words, seed, k, before) ==
    /\ result' = PassCalled(TryPlaceWordComplex(before.grid, words[k], before.rng),
                            words[k], before)
    /\ lastCall' = [op |-> "_try_place_word_complex",
                    request |-> [board_size |-> 3, words |-> words],
                    seed |-> <<seed>>, num_boards |-> 1]
    /\ steps' = k
    /\ UNCHANGED <<files, dictVars, loadVars, cache, hist>>

\* the pass begins: the first word on the empty grid
PassBegins(words, seed) ==
    /\ steps = 0
    /\ PlaceCall(words, seed, 1,
                 [grid |-> EmptyGrid(3), rng |-> RandomOf(seed), earlier |-> {}])

\* the words placed in the pass so far, with their paths
PlacedSoFar(called) ==
    called.earlier \cup (IF called.placed THEN {<<called.word, called.path>>} ELSE {})

\* the pass goes on: the next word on the grid as the call before left it
PassGoesOn ==
    /\ lastCall.op = "_try_place_word_complex"
    /\ steps < Len(lastCall.request.words)
    /\ PlaceCall(lastCall.request.words, lastCall.seed[1], steps + 1,
                 [grid |-> result.grid, rng |-> result.rng, earlier |-> PlacedSoFar(result)])

\* the word lists of the direct calls of
\* _generate_board_from_word_list_with_retry, on a board of 3 by 3
RetryWordLists ==
    {<< <<"C","A","T">>, <<"D","O","G">> >>,
     << <<"F","G","H">>, <<"A","B","C","D","E">>, <<"I","J","K">> >>,
     << <<"A","B","C","D">>, <<"E","F","G","H">>, <<"I","J","K">> >>}

\* a word list that no pass places in full on a board of 3 by 3: 12 letters
CrowdedWords == << <<"A","B","C","D","E","F">>, <<"G","H","I">>, <<"J","K","L">> >>

\* what a direct call of _generate_board_from_word_list_with_retry shows: the
\* grid it returns and the record of its passes
RetriedOf(board_size, end) ==
    [grid |-> RetryResult(board_size, end).value, passes |-> end.passes]

CallGenerateBoardFromWordListWithRetry(words, seed) ==
    /\ steps = 0
    /\ result' = RetriedOf(3, RetryEnd(3, words, RandomOf(seed)))
    /\ lastCall' = [op |-> "_generate_board_from_word_list_with_retry",
                    request |-> [board_size |-> 3, words |-> words],
                    seed |-> <<seed>>, num_boards |-> 1]
    /\ steps' = 1
    /\ UNCHANGED <<files, dictVars, loadVars, cache, hist>>

NextParts ==
    \/ \E request \in PartRequests, seed \in PartSeeds : CallDoGenerateBoard(request, seed)
    \/ \E grid_seed \in {0, 1}, word \in SeedWords, seed \in PartSeeds :
           CallSeedWordPath(grid_seed, word, seed)
    \/ \E words \in PassWordLists, seed \in PartSeeds : PassBegins(words, seed)
    \/ PassGoesOn
    \/ \E words \in RetryWordLists, seed \in PartSeeds :
           CallGenerateBoardFromWordListWithRetry(words, seed)
    \/ CallGenerateBoardFromWordListWithRetry(CrowdedWords, 0)

SpecParts == Init /\ [][NextParts]_vars

(***************************************************************************)
(* SpecRace: generate_board calls of several callers on a service whose    *)
(* dictionary is not loaded yet.  A call looks in the cache, and on a miss *)
(* awaits _do_generate_board, which awaits ensure_loaded(): while the      *)
(* dictionary is not loaded the call is suspended where _load_dictionary   *)
(* is suspended, and the other callers run.  Under SpecRace result and     *)
(* lastCall hold one value for each caller, and each caller calls once.    *)
(***************************************************************************)
\* generate_board(request, seed=seed) of caller p from its call to its first
\* suspension, or to its return when it is not suspended
GenerateBegin(p, request, seed) ==
    /\ pc[p] = "idle"
    /\ call' = [call EXCEPT ![p] = "generate"]
    /\ lastCall' = [lastCall EXCEPT ![p] = [op |-> "generate_board", request |-> request,
                                            seed |-> <<seed>>, num_boards |-> 1]]
    /\ sawLoaded' = [sawLoaded EXCEPT ![p] = is_loaded]
    /\ steps' = steps + 1
    /\ lpath' = [lpath EXCEPT ![p] = WordlistPath]
    /\ LET got == _get_from_cache(Now, seed)
       IN IF IsCachedBoard(got) \/ is_loaded
          THEN LET r == SeededBoard(got, request, seed)
               IN /\ cache' = r.st.cache
                  /\ hist' = r.st.hist
                  /\ result' = [result EXCEPT ![p] = SingleItem(r.board)]
                  /\ pc' = [pc EXCEPT ![p] = "done"]
          ELSE /\ cache' = got.st.cache
               /\ hist' = got.st.hist
               /\ result' = result
               /\ pc' = [pc EXCEPT ![p] = IF files[WordlistPath].exists THEN "opening"
                                         ELSE "FileNotFoundError"]
    /\ UNCHANGED <<files, dictVars, reads>>

\* the file of caller p's load is closed: the trie is built from the shared word
\* set and the flag set, ensure_loaded returns, and generate_board goes on to its
\* return: the board is generated, put in the cache and returned
GenerateResume(p) ==
    /\ pc[p] = "closing"
    /\ call[p] = "generate"
    /\ trie_root' = BuildTrie(dictionary)
    /\ is_loaded' = TRUE
    /\ LET request == lastCall[p].request
           seed == lastCall[p].seed[1]
           board == TableOr(IF dictionary = StaticWords THEN BoardTable ELSE {},
                            request, RandomOf(seed),
                            DoGenerateBoard(BuildTrie(dictionary), dictionary, request,
                                            RandomOf(seed)))
           r == StoreBoard(Now, request, seed, board)
       IN /\ cache' = r.st.cache
          /\ hist' = r.st.hist
          /\ result' = [result EXCEPT ![p] = SingleItem(r.board)]
    /\ pc' = [pc EXCEPT ![p] = "done"]
    /\ UNCHANGED <<files, dictionary_version, dictionary, call, lpath, sawLoaded, reads,
                   lastCall, steps>>

\* the service before its dictionary is loaded, no call made
InitRace ==
    /\ files = StaticFiles
    /\ dictionary_version = NoVersion
    /\ dictionary = {}
    /\ trie_root = NoTrie
    /\ is_loaded = FALSE
    /\ pc = [p \in Loaders |-> "idle"]
    /\ call = [p \in Loaders |-> "none"]
    /\ lpath = [p \in Loaders |-> WordlistPath]
    /\ sawLoaded = [p \in Loaders |-> FALSE]
    /\ reads = 0
    /\ cache = <<>>
    /\ result = [p \in Loaders |-> NoItem]
    /\ lastCall = [p \in Loaders |-> NoCall]
    /\ steps = 0
    /\ hist = NoHistory

NextRace ==
    \E p \in Loaders :
        \/ \E request \in Requests, seed \in {0, 1} : GenerateBegin(p, request, seed)
        \/ FileOpened(p)
        \/ FileRead(p)
        \/ GenerateResume(p)

SpecRace == InitRace /\ [][NextRace]_vars

(***************************************************************************)
(* Properties of the board service and its cache, under Spec.              *)
(***************************************************************************)

\* C1: two calls generate_board(req, seed=s) with the same request and the same
\* seed return the same board (grid, richness and words), whatever calls,
\* clear_cache among them, lie between the two.
C1_SameSeedSameBoard ==
    \A a \in hist.returned : \A b \in hist.returned :
        (a[1] = b[1] /\ a[2] = b[2]) => a[3] = b[3]

\* the seeds that were put into the cache as new keys since it was last empty
Inserted == {s \in AllSeeds : hist.last_use[s] > 0}

\* C2: the cache never holds more than _max_cache_size entries; it holds as
\* many entries as distinct seeds were inserted since it was last empty, up to
\* that bound, so 31 distinct seeds leave exactly 30 entries.
C2_CacheBounded ==
    /\ Len(cache) <= _max_cache_size
    /\ Len(cache) = Min(Cardinality(Inserted), _max_cache_size)

C2_Witness == Cardinality(Inserted) = _max_cache_size + 1 /\ Len(cache) = _max_cache_size

\* C3: a put that makes the cache exceed its bound evicts one entry, the one
\* whose latest insertion or get hit is the oldest; the entries lie in the
\* cache in the order of their latest insertion or get hit, so a get hit has
\* made its entry the most recently used.
C3_EvictsLeastRecentlyUsed ==
    /\ \A e \in hist.evictions : Len(e.evicted) = 1 /\ e.evicted[1] = e.oldest
    /\ \A i \in 1..(Len(cache) - 1) :
           hist.last_use[cache[i].seed] < hist.last_use[cache[i + 1].seed]

\* the oldest insertion, seed 100, was hit again and stays, and seed 101 was
\* evicted in its place
C3_Witness ==
    /\ HasKey(cache, 100)
    /\ \E e \in hist.evictions : e.evicted = <<101>>

\* C4 as stated: between two clear_cache calls the board of a seed is computed
\* at most once.
C4_ComputedAtMostOnce == \A s \in AllSeeds : hist.computed[s] <= 1

\* C4, amended: between two clear_cache calls the board of a seed is computed
\* at most once more than its single-board entry has left the cache, by
\* eviction or by a batch list stored under the same key.
C4_ComputedOncePerResidence ==
    \A s \in AllSeeds : hist.computed[s] <= 1 + hist.dropped[s]

\* a seed was asked for again while its board was cached, and a seed whose
\* board had left the cache was computed a second time
C4_Witness ==
    /\ \E s \in AllSeeds : hist.computed[s] = 2 /\ hist.dropped[s] = 1
    /\ \E a \in hist.returned : \E b \in hist.returned :
           a[2] = b[2] /\ a[1] # b[1] /\ hist.computed[a[2]] = 1

\* the step is a call without a seed
UnseededCall ==
    /\ steps' = steps + 1
    /\ lastCall'.op \in {"generate_board", "generate_multiple_boards"}
    /\ lastCall'.seed = NoSeed

\* C5: generate_board without a seed and generate_multiple_boards without a
\* base seed leave the cache as it is (keys, values and order) and record no
\* use, and every board they return is computed, also when the cache is full.
C5_UnseededBypassesCache ==
    [][UnseededCall =>
          /\ cache' = cache
          /\ hist'.last_use = hist.last_use
          /\ hist'.clock = hist.clock
          /\ hist'.runs = lastCall'.num_boards]_vars

C5_Witness ==
    /\ lastCall.op = "generate_board"
    /\ lastCall.seed = NoSeed
    /\ Len(cache) = _max_cache_size
    /\ hist.runs = 1

\* the service with an empty cache
EmptyService == [cache |-> <<>>, hist |-> NoHistory]

\* the step is a batch call with a base seed on an empty cache
BatchOnEmptyCache ==
    /\ cache = <<>>
    /\ steps' = steps + 1
    /\ lastCall'.op = "generate_multiple_boards"
    /\ lastCall'.seed # NoSeed

\* the step repeats the batch call with a base seed that was made just before
RepeatedBatch ==
    /\ steps' = steps + 1
    /\ lastCall.op = "generate_multiple_boards"
    /\ lastCall.seed # NoSeed
    /\ lastCall' = lastCall

\* C6: on an empty cache generate_multiple_boards(req, base_seed=b, num_boards=k)
\* returns the k boards that generate_board(req, seed=b+i) computes on an empty
\* cache, i = 0..k-1, and stores the list under b; the same call made again at
\* once returns the same list and computes nothing.
C6_BatchBoards ==
    [][/\ BatchOnEmptyCache =>
              /\ result' = ListItem([i \in 1..lastCall'.num_boards |->
                               generate_board(EmptyService, lastCall'.request,
                                              <<lastCall'.seed[1] + i - 1>>, 0).board])
              /\ HasKey(cache', lastCall'.seed[1])
              /\ ItemAt(cache', lastCall'.seed[1]) = result'
       /\ RepeatedBatch => (result' = result /\ hist'.runs = 0)]_vars

\* a batch of MaxBoards boards on an empty cache, made twice
C6_Witness ==
    /\ lastCall.op = "generate_multiple_boards"
    /\ lastCall.seed # NoSeed
    /\ lastCall.num_boards = MaxBoards
    /\ Len(result.boards) = MaxBoards
    /\ Len(cache) = MaxBoards
    /\ steps = 2
    /\ hist.runs = 0

(***************************************************************************)
(* Properties of the concurrent load, under SpecLoad.                      *)
(***************************************************************************)

\* every call made so far loads the static word list
SameSource == \A p \in Loaders : call[p] # "none" => lpath[p] = WordlistPath

\* the trie accepts exactly the words of the shared word set
TrieAcceptsDictionary ==
    /\ \A w \in Queries : _is_word(w) <=> w \in dictionary
    /\ \A w \in dictionary \cup trie_root.is_word : _is_word(w) <=> w \in dictionary

\* C7: with concurrent load and ensure_loaded calls on the same static word
\* list, whenever the loaded flag is set the version is set, the trie root is
\* present and the trie accepts exactly the word set; when every call has
\* ended, the shared index is the one a single load produces.
C7_ConcurrentLoadsConsistent ==
    SameSource =>
        /\ is_loaded =>
              /\ dictionary_version # NoVersion
              /\ trie_root # NoTrie
              /\ TrieAcceptsDictionary
        /\ (reads > 0 /\ \A p \in Loaders : pc[p] \in {"idle", "done"}) =>
              /\ is_loaded
              /\ dictionary_version = <<ParseVersion(StaticContent)>>
              /\ dictionary = ParseWords(StaticContent)
              /\ trie_root = BuildTrie(ParseWords(StaticContent))

\* the flag is set while another load of the same list is between its read
\* and its trie
C7_Witness ==
    /\ SameSource
    /\ is_loaded
    /\ reads >= 2
    /\ \E p \in Loaders : pc[p] = "closing"

\* C8: once the loaded flag is set, a further ensure_loaded call, whatever its
\* path, ends at once without a read and without an error, and leaves the
\* word set, the trie, the version and the flag as they are.
C8_EnsureLoadedIdempotent ==
    [][\A p \in Loaders :
          (is_loaded /\ pc[p] = "idle" /\ call'[p] = "ensure") =>
              /\ pc'[p] = "done"
              /\ UNCHANGED <<files, dictVars, reads>>]_vars

C8_Witness ==
    \E p \in Loaders :
        /\ call[p] = "ensure"
        /\ sawLoaded[p]
        /\ lpath[p] = MissingPath
        /\ pc[p] = "done"

\* the step is the start of a _load_dictionary of loader p, called directly or
\* by an ensure_loaded that found the flag unset
LoadStarts(p) == pc[p] = "idle" /\ pc'[p] \in {"opening", "FileNotFoundError"}

\* C11: a load whose path names no file ends in FileNotFoundError at once, with
\* no read, and leaves the word set, the trie, the version, the loaded flag,
\* the files and the result cache as they were, before and after a load has
\* succeeded; a load whose file exists does not fail so.
C11_MissingSourceFails ==
    [][\A p \in Loaders :
          LoadStarts(p) =>
              /\ pc'[p] = "FileNotFoundError" <=> ~files[lpath'[p]].exists
              /\ pc'[p] = "FileNotFoundError" =>
                     UNCHANGED <<files, dictVars, reads, cache, hist>>]_vars

\* an ensure_loaded failed on the missing path (the flag was unset), a direct
\* load failed on it too, and the index a third call loaded is in place
C11_Witness ==
    /\ is_loaded
    /\ dictionary = StaticWords
    /\ trie_root = StaticTrie
    /\ \E p \in Loaders : \E q \in Loaders :
           /\ pc[p] = "FileNotFoundError" /\ call[p] = "ensure" /\ lpath[p] = MissingPath
           /\ pc[q] = "FileNotFoundError" /\ call[q] = "load" /\ lpath[q] = MissingPath

(***************************************************************************)
(* Properties of the parse and of the trie, under SpecDict.                *)
(***************************************************************************)

\* the lines after the version line, trimmed, that are not blank and have at
\* least three characters, in upper case
WordSetOf(body) ==
    LET lines == SplitLines(body)
    IN {Upper(Strip(lines[i])) :
           i \in {j \in 1..Len(lines) : Strip(lines[j]) # <<>> /\ Len(Strip(lines[j])) >= 3}}

\* C9: after a completed load the word set is the set of the upper-cased,
\* trimmed, non-blank lines of length >= 3 after the version line, and
\* _is_word(w) holds exactly for the words w of that set.
C9_IsWordIffInWordSet ==
    pc[1] = "done" =>
        /\ dictionary = WordSetOf(files[WordlistPath].body)
        /\ \A w \in Queries : _is_word(w) <=> w \in dictionary
        /\ \A w \in dictionary \cup trie_root.is_word : _is_word(w) <=> w \in dictionary

\* a loaded list of two lines that hold the same word
C9_Witness ==
    /\ pc[1] = "done"
    /\ Cardinality(dictionary) = 1
    /\ Len(SplitLines(files[WordlistPath].body)) = 2
    /\ \A i \in 1..2 : Len(Strip(SplitLines(files[WordlistPath].body)[i])) >= 3

\* every prefix of w, the empty one and w included, is accepted by _is_prefix
PrefixesAccepted(w) == \A i \in 0..Len(w) : _is_prefix(SubSeq(w, 1, i))

\* C10: a string that _is_word accepts is accepted by _is_prefix, and so is
\* every prefix of it, the empty one included (without a trie _is_word accepts
\* nothing).
C10_WordsArePrefixes ==
    trie_root # NoTrie =>
        /\ \A w \in Queries : _is_word(w) => PrefixesAccepted(w)
        /\ \A w \in dictionary : _is_word(w) => PrefixesAccepted(w)

C10_Witness == is_loaded /\ \E w \in Queries : _is_word(w) /\ Len(w) = MaxQuery

(***************************************************************************)
(* Properties of the grid search and of move validation, under SpecSearch. *)
(***************************************************************************)

\* two different cells that touch, at a side or at a corner
Adjacent(c, d) ==
    /\ c # d
    /\ c[1] - d[1] \in {-1, 0, 1}
    /\ c[2] - d[2] \in {-1, 0, 1}

\* some path of cells that starts at cell c, visits no cell of used and no cell
\* twice, and steps between adjacent cells, spells w from its i-th character on
RECURSIVE SpelledFrom(_, _, _, _, _)
SpelledFrom(grid, w, i, c, used) ==
    /\ CellAt(grid, c[1], c[2]) = w[i]
    /\ \/ i = Len(w)
       \/ \E d \in ((0..(Len(grid) - 1)) \X (0..(Len(grid) - 1))) \ (used \cup {c}) :
              Adjacent(c, d) /\ SpelledFrom(grid, w, i + 1, d, used \cup {c})

\* the dictionary words of at least min_length characters that a path spells
WordsOnGrid(grid, min_length) ==
    {w \in dictionary :
        /\ Len(w) >= min_length
        /\ \E c \in (0..(Len(grid) - 1)) \X (0..(Len(grid) - 1)) :
               SpelledFrom(grid, w, 1, c, {})}

\* C12: find_words(grid, min_length) returns exactly the dictionary words of
\* at least min_length characters that are spelled by a path of cells whose
\* consecutive cells are adjacent in one of the eight directions and that
\* visits no cell twice.
C12_FindWordsExact ==
    lastCall.op = "find_words" =>
        result = WordsOnGrid(lastCall.grid, lastCall.min_length)

\* a grid on which ABA is found and ABBA, whose letters the grid holds, is not
C12_Witness ==
    /\ lastCall.op = "find_words"
    /\ lastCall.min_length = 3
    /\ <<"A", "B", "A">> \in result
    /\ <<"A", "B", "B", "A">> \notin result
    /\ \E x \in 1..3, y \in 1..3, z \in 1..3 :
           x # z /\ lastCall.grid[x][y] = "B" /\ lastCall.grid[z][y] = "B"

\* the step is a call of op, the one call of the behaviour
CallStep(op) == steps = 0 /\ steps' = 1 /\ lastCall'.op = op

\* every coordinate of the path lies on the n x n board
OnBoard(path, n) ==
    \A k \in 1..Len(path) :
        path[k][1] >= 0 /\ path[k][1] < n /\ path[k][2] >= 0 /\ path[k][2] < n

\* the letters of the grid along a path on the board, in upper case
PathWord(grid, path) == [k \in 1..Len(path) |-> UpperChar(grid[path[k][1] + 1][path[k][2] + 1])]

\* C17: with the dictionary loaded and a path on the board, validate_move
\* returns a response whose word is the upper-cased letters along the path
\* and whose is_valid tells that the word has at least min_length characters
\* and is a dictionary word (so a proper prefix of a word is invalid).
C17_ValidateMoveResult ==
    [][(CallStep("validate_move") /\ is_loaded
           /\ OnBoard(lastCall'.path, Len(lastCall'.grid))) =>
          /\ result'.error = "none"
          /\ result'.response[1].word = PathWord(lastCall'.grid, lastCall'.path)
          /\ result'.response[1].is_valid <=>
                 /\ Len(lastCall'.path) >= lastCall'.min_length
                 /\ PathWord(lastCall'.grid, lastCall'.path) \in dictionary]_vars

\* a load has completed
LoadCompleted == \E p \in Loaders : pc[p] = "done" /\ call[p] = "load"

\* C18 as stated: until a load has completed validate_move and
\* dictionary_version raise the RuntimeError "Dictionary not loaded", return
\* nothing and change no state; after it neither raises that error.
C18_NotLoadedUntilCompleted ==
    [][(CallStep("validate_move") \/ CallStep("dictionary_version")) =>
          /\ UNCHANGED <<files, dictVars, loadVars, cache, hist>>
          /\ result'.error = "RuntimeError" <=> ~LoadCompleted
          /\ result'.error = "RuntimeError" => result'.response = <<>>]_vars

\* C18, amended: validate_move raises the RuntimeError exactly until a load has
\* completed; dictionary_version raises it exactly until a load has read its
\* file, which sets the version before the load completes, and from then on
\* returns the version; a call that raises returns nothing and neither call
\* changes state.
C18_NotLoadedWhileUnset ==
    [][(CallStep("validate_move") \/ CallStep("dictionary_version")) =>
          /\ UNCHANGED <<files, dictVars, loadVars, cache, hist>>
          /\ lastCall'.op = "validate_move" =>
                 (result'.error = "RuntimeError" <=> ~LoadCompleted)
          /\ lastCall'.op = "dictionary_version" =>
                 /\ result'.error = "RuntimeError" <=> reads = 0
                 /\ reads > 0 => result' = Returned(ParseVersion(files[lpath[1]]))
          /\ result'.error = "RuntimeError" => result'.response = <<>>]_vars

\* dictionary_version was read and gave the version while the load was between
\* its read and its completion
C18_Witness ==
    /\ lastCall.op = "dictionary_version"
    /\ result = Returned(3)
    /\ pc[1] = "closing"
    /\ ~is_loaded

\* C19: with the dictionary loaded, validate_move on a path with a coordinate
\* outside the board raises the out-of-range error (IndexError) and returns no
\* response.
C19_OffBoardRaises ==
    [][(CallStep("validate_move") /\ is_loaded
           /\ ~OnBoard(lastCall'.path, Len(lastCall'.grid))) =>
          result' = Raise("IndexError")]_vars

(***************************************************************************)
(* Properties of the boards made from word lists, under SpecWords.         *)
(***************************************************************************)

\* the latest call was generate_board_from_words and it returned a board
WordsBoardReturned ==
    lastCall.op = "generate_board_from_words" /\ result.error = "none"

\* the words of the request in upper case and trimmed, those of
\* min_word_length characters or more
FilteredInput(request) ==
    {Strip(Upper(w)) : w \in {v \in SeqRange(request.words) :
                                Len(Strip(Upper(v))) >= request.min_word_length}}

\* C13: every word in the words of a board returned by
\* generate_board_from_words, in either mode and under every seed, is one of
\* the input words upper-cased and trimmed that have min_word_length
\* characters or more, and has min_word_length characters or more itself.
C13_WordsFromFilteredInput ==
    WordsBoardReturned =>
        \A w \in SeqRange(result.response[1].words) :
            /\ w \in FilteredInput(lastCall.request)
            /\ Len(w) >= lastCall.request.min_word_length

\* a board with a word that was given padded and in lower case, from a request
\* with a word that is too short
C13_Witness ==
    /\ WordsBoardReturned
    /\ Len(result.response[1].words) < Len(lastCall.request.words)
    /\ \E w \in SeqRange(lastCall.request.words) :
           /\ Upper(w) # w
           /\ Strip(w) # w
           /\ Strip(Upper(w)) \in SeqRange(result.response[1].words)

\* the places of the words of the request that the filter keeps
KeptPlaces(request) ==
    {i \in 1..Len(request.words) :
        Len(Strip(Upper(request.words[i]))) >= request.min_word_length}

\* the filter keeps one word of the request, and it has three letters
SingleThreeLetterWord(request) ==
    /\ Cardinality(KeptPlaces(request)) = 1
    /\ \A i \in KeptPlaces(request) : Len(Strip(Upper(request.words[i]))) = 3

\* C14: when the filtered word list of the request is one word of three
\* letters, generate_board_from_words returns a board whose words contain that
\* word, at every board size from 3 to 10, in both modes and under every seed.
C14_SingleWordFound ==
    (lastCall.op = "generate_board_from_words" /\ SingleThreeLetterWord(lastCall.request)) =>
        /\ result.error = "none"
        /\ \A i \in KeptPlaces(lastCall.request) :
               Strip(Upper(lastCall.request.words[i])) \in SeqRange(result.response[1].words)

\* the word of a single-word request is found on a board of ten by ten made
\* in the mode that places all words
C14_Witness ==
    /\ WordsBoardReturned
    /\ SingleThreeLetterWord(lastCall.request)
    /\ lastCall.request.board_size = 10
    /\ lastCall.request.try_place_all_words
    /\ result.response[1].words # <<>>

\* the step is a call of generate_board_from_words
WordsCallStep == steps' = steps + 1 /\ lastCall'.op = "generate_board_from_words"

\* C16: a call of generate_board_from_words with a request that has no word
\* of min_word_length characters when trimmed gives the error for no valid
\* words (a ValueError) and no board, whether the dictionary is loaded or not,
\* and leaves the cache, the dictionary, the trie, the version and the flag
\* as they were.
C16_NoValidWordsFails ==
    [][(WordsCallStep /\ KeptPlaces(lastCall'.request) = {}) =>
          /\ result' = Raise("ValueError")
          /\ cache' = cache
          /\ dictionary' = dictionary /\ trie_root' = trie_root
          /\ dictionary_version' = dictionary_version /\ is_loaded' = is_loaded]_vars

\* the error, after a call made during a load with a board in the cache
C16_Witness ==
    /\ lastCall.op = "generate_board_from_words"
    /\ KeptPlaces(lastCall.request) = {}
    /\ result = Raise("ValueError")
    /\ cache # <<>>
    /\ pc[1] = "reading"

\* the error, after a call made with no dictionary loaded
C16_WitnessNotLoaded ==
    /\ lastCall.op = "generate_board_from_words"
    /\ result = Raise("ValueError")
    /\ ~is_loaded /\ dictionary = {}

\* the fraction lies in [0, 1]
InUnitInterval(richness) ==
    richness.den > 0 /\ richness.num >= 0 /\ richness.num <= richness.den

\* C20: the richness _compute_richness gives for a word list and a board
\* size from 3 on lies in [0, 1] and is 0 for the empty list; so does the
\* richness of every board returned by generate_board and by
\* generate_board_from_words.
C20_RichnessInUnitInterval ==
    /\ lastCall.op = "_compute_richness" =>
           /\ InUnitInterval(result.response[1])
           /\ lastCall.request.words = <<>> => result.response[1].num = 0
    /\ WordsBoardReturned => InUnitInterval(result.response[1].richness)
    /\ lastCall.op = "generate_board" =>
           \A i \in 1..Len(result.boards) : InUnitInterval(result.boards[i].richness)

\* more words than the board size expects, longer than it expects: both scores
\* are capped and the richness is 1
C20_Witness ==
    /\ lastCall.op = "_compute_richness"
    /\ Len(lastCall.request.words) >
           (lastCall.request.board_size * lastCall.request.board_size) \div 2
    /\ \A w \in SeqRange(lastCall.request.words) : Len(w) > 15
    /\ result.response[1].num = result.response[1].den

\* min(num / den, 1) as a pair of numerator and denominator, den > 0
CappedAtOne(num, den) == IF num >= den THEN <<1, 1>> ELSE <<num, den>>

\* richness = 0.8 * count_score + 0.2 * length_score, the scores being pairs
WeighsScores(richness, count_score, length_score) ==
    richness.num * 5 * count_score[2] * length_score[2]
        = richness.den * (4 * count_score[1] * length_score[2]
                            + length_score[1] * count_score[2])

\* sum(len(w) for w in words)
TotalLength(words) == SumLen(words, 1, Len(words))

\* the latest call was _compute_richness on a list that is not empty
RichnessOfWords == lastCall.op = "_compute_richness" /\ lastCall.request.words # <<>>

\* C21 as stated: the richness of a non-empty word list on a board of size N
\* is 0.8 * min(count / (N * N * 0.5), 1) + 0.2 * min(average length /
\* min(2N, 15), 1), with N * N * 0.5 the exact value, a half for odd N.
C21_RichnessWithExactHalf ==
    RichnessOfWords =>
        LET words == lastCall.request.words
            n == lastCall.request.board_size
        IN WeighsScores(result.response[1],
                        CappedAtOne(2 * Len(words), n * n),
                        CappedAtOne(TotalLength(words), Len(words) * Min(2 * n, 15)))

\* C21 amended: the same formula with N * N * 0.5 cut to an integer, which
\* is (N * N - 1) / 2 for odd N.
C21_RichnessWithCutHalf ==
    RichnessOfWords =>
        LET words == lastCall.request.words
            n == lastCall.request.board_size
        IN WeighsScores(result.response[1],
                        CappedAtOne(Len(words), (n * n) \div 2),
                        CappedAtOne(TotalLength(words), Len(words) * Min(2 * n, 15)))

\* four words on a board of three by three: the count score is 1, where
\* the exact half would give 8/9
C21_Witness ==
    /\ RichnessOfWords
    /\ lastCall.request.board_size = 3
    /\ Len(lastCall.request.words) = 4
    /\ TotalLength(lastCall.request.words) = 12
    /\ result.response[1] = [num |-> 9, den |-> 10]

(***************************************************************************)
(* Properties of the grid of a board made from a word list, under SpecFill. *)
(***************************************************************************)

\* the words of the request consist of letters only
LettersOnly(request) ==
    \A w \in SeqRange(request.words) : \A i \in 1..Len(w) : UpperChar(w[i]) \in SeqRange(letters)

\* no word of the request is on the board
NoWordPlaced == result.response[1].words = <<>>

\* C15: when the words of the request consist of letters only, the grid of the
\* board generate_board_from_words returns has board_size rows of board_size
\* cells and every cell holds one upper-case letter, in both modes and under
\* every seed, also when no word could be placed.
C15_GridFullOfLetters ==
    (WordsBoardReturned /\ LettersOnly(lastCall.request)) =>
        LET grid == result.response[1].grid
            n == lastCall.request.board_size
        IN /\ DOMAIN grid = 1..n
           /\ \A x \in 1..n :
                  /\ DOMAIN grid[x] = 1..n
                  /\ \A y \in 1..n : grid[x][y] \in SeqRange(letters)

\* a board made in the mode that places all words on which no word of the
\* request is, the one word of the request being longer than the board has
\* cells
C15_Witness ==
    /\ WordsBoardReturned
    /\ LettersOnly(lastCall.request)
    /\ lastCall.request.try_place_all_words
    /\ \A w \in SeqRange(lastCall.request.words) :
           Len(w) > lastCall.request.board_size * lastCall.request.board_size
    /\ NoWordPlaced

(***************************************************************************)
(* Properties of the cache as the callers see it, under Spec.              *)
(***************************************************************************)

\* the latest call was generate_board with a seed
SeededBoardCall == lastCall.op = "generate_board" /\ lastCall.seed # NoSeed

\* C27: the board generate_board(req, seed=s) returns is the same in every
\* state of the cache: it is the board computed from (req, s), whatever
\* generate_board and generate_multiple_boards calls were made before.
C27_SameBoardInEveryCacheState ==
    SeededBoardCall =>
        result.boards[1] = _do_generate_board(lastCall.request, RandomOf(lastCall.seed[1]))

\* the latest call was generate_multiple_boards
BoardsCall == lastCall.op = "generate_multiple_boards"

\* C28: generate_multiple_boards(req, base_seed=b, num_boards=k) returns a list
\* of exactly k boards in every state of the cache.
C28_BatchOfRequestedCount ==
    BoardsCall => Len(result.boards) = lastCall.num_boards

\* the cache holds a batch list under the seed
ListAt(c, seed) == HasKey(c, seed) /\ ItemAt(c, seed).is_list

\* the step is a call that ends with _put_in_cache(seed, ...): a seeded
\* generate_board that finds no single board under its seed, or a seeded
\* generate_multiple_boards that finds no batch list under its base seed
PutStep ==
    /\ lastCall'.seed # NoSeed
    /\ \/ lastCall'.op = "generate_board" /\ ~SingleAt(cache, lastCall'.seed[1])
       \/ lastCall'.op = "generate_multiple_boards" /\ ~ListAt(cache, lastCall'.seed[1])

\* C29: right after a put(seed, value), of a new seed or of one already
\* present, the entry of that seed is the most recently used one, the last in
\* the order of eviction; so the batch list stored under base_seed lies behind
\* the single boards of base_seed + 1 .. base_seed + num_boards - 1 that the
\* same call inserted.
C29_PutMakesMostRecent ==
    [][PutStep => cache'[Len(cache')].seed = lastCall'.seed[1]]_vars

(***************************************************************************)
(* Properties of the parts of the generators, under SpecParts.             *)
(***************************************************************************)

\* the latest call was a direct call of _do_generate_board
Generated == lastCall.op = "_do_generate_board"

\* the board has min_word_count words
MeetsCount(board, request) == Len(board.words) >= request.min_word_count

\* |richness - target| of the board, times 100 * board.richness.den
OffTarget(board, request) ==
    LET d == 100 * board.richness.num - request.target_richness * board.richness.den
    IN IF d < 0 THEN -d ELSE d

\* the board has the words wanted and its richness is within 0.05 of the target
Accepted(board, request) ==
    /\ MeetsCount(board, request)
    /\ OffTarget(board, request) <= 5 * board.richness.den

\* a is nearer to the target than b, and a is as near to the target as b
Nearer(a, b, request) ==
    OffTarget(a, request) * b.richness.den < OffTarget(b, request) * a.richness.den

AsNear(a, b, request) ==
    OffTarget(a, request) * b.richness.den <= OffTarget(b, request) * a.richness.den

\* the index of the attempt that the rule of selection names
SelectedAttempt(attempts, request) ==
    IF \E i \in 1..Len(attempts) : Accepted(attempts[i], request)
    THEN CHOOSE i \in 1..Len(attempts) :
             /\ Accepted(attempts[i], request)
             /\ \A j \in 1..(i - 1) : ~Accepted(attempts[j], request)
    ELSE IF \E i \in 1..Len(attempts) : MeetsCount(attempts[i], request)
    THEN CHOOSE i \in 1..Len(attempts) :
             /\ MeetsCount(attempts[i], request)
             /\ \A j \in 1..Len(attempts) :
                    MeetsCount(attempts[j], request) =>
                        /\ AsNear(attempts[i], attempts[j], request)
                        /\ j < i => Nearer(attempts[i], attempts[j], request)
    ELSE Len(attempts)

\* richness and words of the board are those of its grid, and the words are in
\* ascending order, none twice
BoardOfItsGrid(board, request) ==
    /\ SeqRange(board.words) = FindWords(trie_root, board.grid, request.min_word_length)
    /\ board.richness = ComputeRichness(board.words, request.board_size)
    /\ \A i \in 1..(Len(board.words) - 1) : StrLess(board.words[i], board.words[i + 1])

\* C22: the board _do_generate_board returns is that of the first attempt with
\* min_word_count words and a richness within 0.05 of the target; if there is
\* none, that of the attempt nearest to the target among those with
\* min_word_count words, the earliest of them on ties; if no attempt has
\* min_word_count words, that of the last attempt.  Richness and words are
\* those computed from the returned grid, the words ascending without
\* duplicates.
C22_SelectedBoard ==
    Generated =>
        /\ result.board = result.attempts[SelectedAttempt(result.attempts, lastCall.request)]
        /\ BoardOfItsGrid(result.board, lastCall.request)

\* the three cases of the rule
AcceptedCase ==
    /\ Generated
    /\ Accepted(result.board, lastCall.request)
    /\ Len(result.attempts) > 1

NearestCase ==
    /\ Generated
    /\ ~\E i \in 1..Len(result.attempts) : Accepted(result.attempts[i], lastCall.request)
    /\ MeetsCount(result.board, lastCall.request)
    /\ result.board # result.attempts[Len(result.attempts)]
    /\ \E i \in 1..Len(result.attempts) :
           /\ MeetsCount(result.attempts[i], lastCall.request)
           /\ Nearer(result.board, result.attempts[i], lastCall.request)

LastCase ==
    /\ Generated
    /\ ~\E i \in 1..Len(result.attempts) : MeetsCount(result.attempts[i], lastCall.request)
    /\ Len(result.attempts) = MaxAttempts

\* a call of the second case in which a later attempt is as near to the target
\* as the returned one and is another board
C22_Witness ==
    /\ NearestCase
    /\ \E i \in 1..Len(result.attempts) :
           /\ MeetsCount(result.attempts[i], lastCall.request)
           /\ AsNear(result.attempts[i], result.board, lastCall.request)
           /\ result.attempts[i] # result.board

C22_WitnessAccepted == AcceptedCase

C22_WitnessLast == LastCase

\* the latest call was a direct call of _seed_word_path, of _try_place_word_complex
SeedCalled == lastCall.op = "_seed_word_path"
PlaceCalled == lastCall.op = "_try_place_word_complex"

\* every call of _try_place_word_complex draws at most 200 start cells and
\* every call of _seed_word_path begins at most 50 paths
PlacingBudgets ==
    /\ PlaceCalled => result.starts <= 200
    /\ SeedCalled => result.paths <= 50

\* C24 as stated: a call of _do_generate_board runs at most 200 attempts and
\* makes one grid per attempt, so at most 200 grids in one call; a placement
\* tries at most 200 start cells and a seeding at most 50 paths.
C24_AtMostTwoHundredGrids ==
    /\ Generated => /\ result.rounds <= 200
                    /\ Len(result.attempts) = result.rounds
                    /\ result.grids <= 200
    /\ PlacingBudgets

\* C24: a call of _do_generate_board ends after at most 200 attempts; it makes
\* one grid before the first attempt and one grid per attempt, so at most 201
\* grids in one call; a placement tries at most 200 start cells and a seeding
\* at most 50 paths.
C24_BoundedBudgets ==
    /\ Generated => /\ result.rounds <= 200
                    /\ Len(result.attempts) = result.rounds
                    /\ result.grids = result.rounds + 1
    /\ PlacingBudgets

\* a call that runs all its attempts and makes 201 grids
C24_Witness == Generated /\ result.rounds = 200 /\ result.grids = 201

\* a placement that uses up its 200 start cells, a seeding that uses up its 50
\* paths
C24_WitnessPlacement == PlaceCalled /\ ~result.placed /\ result.starts = 200

C24_WitnessSeeding == SeedCalled /\ ~result.placed /\ result.paths = 50

\* the grid spells the word along the path
SpelledAlong(grid, word, path) ==
    /\ Len(path) = Len(word)
    /\ \A i \in 1..Len(path) : CellAt(grid, path[i][1], path[i][2]) = word[i]

\* the letters the grid held before are still there
LettersKept(before, grid) ==
    \A x \in 1..Len(before) : \A y \in 1..Len(before) :
        before[x][y] # "" => grid[x][y] = before[x][y]

\* C26: a call of _try_place_word_complex that places its word changes no cell
\* that held a letter (every cell of the path, the start cell too, was empty or
\* held the letter written to it), so every word placed earlier in the pass is
\* still spelled along its path; a call that does not place its word leaves
\* the grid as it was.
C26_PlacementKeepsLetters ==
    PlaceCalled =>
        /\ result.placed => LettersKept(result.before, result.grid)
        /\ ~result.placed => result.grid = result.before
        /\ \A placed \in PlacedSoFar(result) : SpelledAlong(result.grid, placed[1], placed[2])

\* the latest call was a direct call of _generate_board_from_word_list_with_retry
Retried == lastCall.op = "_generate_board_from_word_list_with_retry"

\* the grid is the grid of the pass with its empty cells filled with letters
FilledFrom(pass_grid, grid) ==
    \A x \in 1..Len(pass_grid) : \A y \in 1..Len(pass_grid) :
        IF pass_grid[x][y] # "" THEN grid[x][y] = pass_grid[x][y]
        ELSE grid[x][y] \in SeqRange(letters)

\* the pass placed every word
PlacedAll(pass, words) == pass.count = Len(words)

\* C23: in the mode that places all words the returned grid is that of the
\* first pass that placed every word, which ends the loop; if none of the 50
\* passes placed every word, it is that of a pass whose number of placed words
\* is the largest of the 50; the fill wrote only cells the pass left empty.
C23_GridOfBestPass ==
    Retried =>
        LET passes == result.passes
            words == lastCall.request.words
        IN IF \E i \in 1..Len(passes) : PlacedAll(passes[i], words)
           THEN /\ PlacedAll(passes[Len(passes)], words)
                /\ \A i \in 1..(Len(passes) - 1) : ~PlacedAll(passes[i], words)
                /\ FilledFrom(passes[Len(passes)].grid, result.grid)
           ELSE /\ Len(passes) = 50
                /\ \E i \in 1..50 :
                       /\ \A j \in 1..50 : passes[j].count <= passes[i].count
                       /\ FilledFrom(passes[i].grid, result.grid)

\* a call none of whose 50 passes placed every word, the passes placing
\* different numbers of words, the last pass not being the grid returned
C23_Witness ==
    /\ Retried
    /\ Len(result.passes) = 50
    /\ \A i \in 1..50 : ~PlacedAll(result.passes[i], lastCall.request.words)
    /\ \E i \in 1..50 : \E j \in 1..50 : result.passes[i].count < result.passes[j].count
    /\ ~FilledFrom(result.passes[50].grid, result.grid)

\* a call whose first passes did not place every word and a later one did
C23_WitnessLaterPass ==
    /\ Retried
    /\ Len(result.passes) > 2
    /\ PlacedAll(result.passes[Len(result.passes)], lastCall.request.words)

(***************************************************************************)
(* The regeneration of generate_board_from_words, under SpecWords.         *)
(***************************************************************************)

CallerGot(p, request, seed) ==
    /\ pc[p] = "done"
    /\ lastCall[p].request = request
    /\ lastCall[p].seed = <<seed>>

\* every generate_board call made with the seed was made with the request
OnlyRequestOf(request, seed) ==
    \A r \in Loaders : lastCall[r].seed = <<seed>> => lastCall[r].request = request

EntriesOf(seed) == {i \in 1..Len(cache) : cache[i].seed = seed}

\* C25: when generate_board calls with the same request and the same uncached
\* seed interleave at the suspensions of the load (each misses the cache, each
\* computes), the callers receive equal boards, the cache then holds exactly one
\* entry for the seed, whose value is that board, and the cache holds at most 30
\* entries
C25_InterleavedCallsAgree ==
    \A p, q \in Loaders : \A request \in Requests : \A seed \in {0, 1} :
        (p # q /\ CallerGot(p, request, seed) /\ CallerGot(q, request, seed)
             /\ OnlyRequestOf(request, seed))
        => /\ result[p] = result[q]
           /\ Cardinality(EntriesOf(seed)) = 1
           /\ ItemAt(cache, seed) = result[p]
           /\ Len(cache) <= _max_cache_size

\* two callers missed the cache for the same request and seed before the
\* dictionary was loaded, both computed the board, and both have returned
C25_Witness ==
    \E p, q \in Loaders :
        /\ p # q
        /\ CallerGot(p, Request70, 1) /\ CallerGot(q, Request70, 1)
        /\ ~sawLoaded[p] /\ ~sawLoaded[q]
        /\ OnlyRequestOf(Request70, 1)
        /\ hist.computed[1] >= 2

====
